---- MODULE Spec2Model ----
(***************************************************************************)
(* Comprehensive OCR service (services/comprehensive_ocr_service.py):      *)
(* one extraction request, from extract_text through PDF decomposition,    *)
(* chunk assembly and the multi-configuration Tesseract search.            *)
(*                                                                         *)
(* Text is a sequence of lexemes: a lexeme is one whitespace character     *)
(* (" " or "\n") or one run of non-whitespace characters.  Confidences are *)
(* exact fractions <<num, den>> in lowest terms.                           *)
(***************************************************************************)
EXTENDS Integers, Sequences, FiniteSets, TLC

\* ---------------------------------------------------------------- bounds
MaxSize == 4
MaxTokens == 2

\* repetitions of one word in a sample text
MaxRepeat == 17

\* calls of the scorer on one sample text
MaxCalls == 2

\* calls of configure_pytesseract in a behaviour
MaxConfigure == 2

\* ------------------------------------------------------ program constants
MAX_PAGES_PER_REQUEST == 100
NUM_CONFIGS == 5
MIN_TOKEN_CONF == 30

\* ------------------------------------------------------------------ text
IsSpace(c) == c \in {" ", "\n"}

RECURSIVE LStrip(_)
LStrip(s) ==
  IF s = <<>> THEN s
  ELSE IF IsSpace(Head(s)) THEN LStrip(Tail(s)) ELSE s

RECURSIVE RStrip(_)
RStrip(s) ==
  IF s = <<>> THEN s
  ELSE IF IsSpace(s[Len(s)]) THEN RStrip(SubSeq(s, 1, Len(s) - 1)) ELSE s

\* str.strip()
Strip(s) == RStrip(LStrip(s))

\* ' '.join(parts)
RECURSIVE JoinSpace(_)
JoinSpace(parts) ==
  IF parts = <<>> THEN <<>>
  ELSE IF Len(parts) = 1 THEN parts[1]
  ELSE parts[1] \o <<" ">> \o JoinSpace(Tail(parts))

\* '+'.join(languages) if languages else 'eng'
RECURSIVE JoinPlus(_)
JoinPlus(parts) ==
  IF Len(parts) = 1 THEN parts[1]
  ELSE parts[1] \o "+" \o JoinPlus(Tail(parts))

\* f"\n--- PAGE {page_num} ---\n"
PageHeader(page_num) ==
  <<"\n", "---", " ", "PAGE", " ", ToString(page_num), " ", "---", "\n">>

\* ------------------------------------------------------------ fractions
RECURSIVE Gcd(_, _)
Gcd(a, b) == IF b = 0 THEN a ELSE Gcd(b, a % b)

Frac(n, d) == IF n = 0 THEN <<0, 1>> ELSE <<n \div Gcd(n, d), d \div Gcd(n, d)>>

FracGt(a, b) == a[1] * b[2] > b[1] * a[2]

FracLe(a, b) == a[1] * b[2] <= b[1] * a[2]

RECURSIVE Sum(_)
Sum(s) == IF s = <<>> THEN 0 ELSE Head(s) + Sum(Tail(s))

\* ----------------------------------------------------- OCR Config Search
\* One row of pytesseract.image_to_data: its text and its integer confidence.
TokenTexts == {<<" ">>, <<"x">>}

TokenConfs == {MIN_TOKEN_CONF, MIN_TOKEN_CONF + 1, 100}

Tokens == [text : TokenTexts, conf : TokenConfs]

TokenLists == UNION {[1..n -> Tokens] : n \in 0..MaxTokens}

\* What one image_to_data call does: it raises, or returns rows.
ConfigOutcomes == {[fail |-> TRUE, tokens |-> <<>>]}
                  \cup {[fail |-> FALSE, tokens |-> t] : t \in TokenLists}

\* What the image_to_string call does: it raises, or returns raw text.
PlainOutcomes == {[fail |-> TRUE, text |-> <<>>],
                  [fail |-> FALSE, text |-> <<"\n">>],
                  [fail |-> FALSE, text |-> <<"y", "\n">>]}

UNAVAILABLE_TEXT ==
  <<"[Tesseract", " ", "OCR", " ", "not", " ", "available", " ", "-", " ",
    "install", " ", "Tesseract", " ", "OCR", " ", "engine]">>

FailedText(page_num) ==
  <<"[OCR", " ", "processing", " ", "failed", " ", "for", " ", "image", " ",
    "on", " ", "page", " ", ToString(page_num) \o "]">>

ErrorText == <<"[OCR", " ", "error:", " ", "cannot", " ", "identify", " ", "image]">>

\* best_text = "", best_confidence = 0.0, best_config = ""  (config 0 is "")
InitBest == [text |-> <<>>, confidence |-> <<0, 1>>, config |-> 0]

\* variant: a token at the minimum confidence is kept too
KeptTokens_AtLeast(tokens) == SelectSeq(tokens, LAMBDA t : t.conf >= MIN_TOKEN_CONF)

\* if conf > 30: text_parts.append(...); confidences.append(conf)
KeptTokens(tokens) == SelectSeq(tokens, LAMBDA t : t.conf > MIN_TOKEN_CONF)

TextParts(tokens) == [i \in 1..Len(KeptTokens(tokens)) |-> KeptTokens(tokens)[i].text]

Confidences(tokens) == [i \in 1..Len(KeptTokens(tokens)) |-> KeptTokens(tokens)[i].conf]

\* current_text = ' '.join(text_parts).strip()
CurrentText(tokens) == Strip(JoinSpace(TextParts(tokens)))

\* current_confidence without the division by 100.0
CurrentConfidence_Unscaled(tokens) ==
  Frac(Sum(Confidences(tokens)), Len(Confidences(tokens)))

\* current_confidence = sum(confidences) / len(confidences) / 100.0
CurrentConfidence(tokens) ==
  Frac(Sum(Confidences(tokens)), Len(Confidences(tokens)) * 100)

\* variant: an equal confidence replaces the best too
Better_OrEqual(current, best) == FracLe(best, current) /\ current # <<0, 1>>

\* if current_confidence > best_confidence
Better(current, best) == FracGt(current, best)

\* One iteration of "for config in configs" for configuration k.
ConfigStep(best, k, outcome) ==
  IF outcome.fail THEN best
  ELSE IF TextParts(outcome.tokens) = <<>> THEN best
  ELSE IF Better(CurrentConfidence(outcome.tokens), best.confidence)
       THEN [text |-> CurrentText(outcome.tokens),
             confidence |-> CurrentConfidence(outcome.tokens),
             config |-> k]
       ELSE best

\* if not best_text
NeedsFallback(best) == best.text = <<>>

\* variant: the placeholder of a failed fallback is typed as an error
SearchResult_DegradedIsError(best, plain, page_num, lang_config) ==
  IF NeedsFallback(best)
  THEN IF plain.fail
       THEN [text |-> FailedText(page_num), confidence |-> Frac(10, 100),
             page |-> page_num, chunk_type |-> "ocr_error",
             language |-> lang_config, source |-> "degraded",
             best_config |-> best.config]
       ELSE [text |-> Strip(plain.text), confidence |-> Frac(50, 100),
             page |-> page_num, chunk_type |-> "ocr_text",
             language |-> lang_config, source |-> "plain",
             best_config |-> best.config]
  ELSE [text |-> best.text, confidence |-> best.confidence,
        page |-> page_num, chunk_type |-> "ocr_text",
        language |-> lang_config, source |-> "config",
        best_config |-> best.config]

\* The fallback block and the returned dict.
SearchResult(best, plain, page_num, lang_config) ==
  IF NeedsFallback(best)
  THEN IF plain.fail
       THEN [text |-> FailedText(page_num), confidence |-> Frac(10, 100),
             page |-> page_num, chunk_type |-> "ocr_text",
             language |-> lang_config, source |-> "degraded",
             best_config |-> best.config]
       ELSE [text |-> Strip(plain.text), confidence |-> Frac(50, 100),
             page |-> page_num, chunk_type |-> "ocr_text",
             language |-> lang_config, source |-> "plain",
             best_config |-> best.config]
  ELSE [text |-> best.text, confidence |-> best.confidence,
        page |-> page_num, chunk_type |-> "ocr_text",
        language |-> lang_config, source |-> "config",
        best_config |-> best.config]

\* if not TESSERACT_AVAILABLE: return {...}
UnavailableResult(page_num) ==
  [text |-> UNAVAILABLE_TEXT, confidence |-> Frac(0, 100), page |-> page_num,
   chunk_type |-> "ocr_unavailable", language |-> "unknown",
   source |-> "unavailable", best_config |-> 0]

\* variant: an unreadable image gives an empty result
ErrorResult_Blank(page_num) ==
  [text |-> <<>>, confidence |-> Frac(0, 100), page |-> page_num,
   chunk_type |-> "ocr_error", language |-> "unknown",
   source |-> "error", best_config |-> 0]

\* except Exception as e: return {...}
ErrorResult(page_num) ==
  [text |-> ErrorText, confidence |-> Frac(10, 100), page |-> page_num,
   chunk_type |-> "ocr_error", language |-> "unknown",
   source |-> "error", best_config |-> 0]

\* The configuration loop over a whole engine run (one outcome per config).
RECURSIVE SearchLoop(_, _, _)
SearchLoop(best, k, cfgs) ==
  IF k > NUM_CONFIGS THEN best
  ELSE SearchLoop(ConfigStep(best, k, cfgs[k]), k + 1, cfgs)

\* Engine runs on the images embedded in a PDF: what the five image_to_data
\* calls and the image_to_string call do on one image.
Raises == [fail |-> TRUE, tokens |-> <<>>]

Rows(tokens) == [fail |-> FALSE, tokens |-> tokens]

Tok(text, conf) == [text |-> text, conf |-> conf]

\* A legible image: config 1 raises, config 3 wins, config 4 ties with it.
ClearRun ==
  [loads |-> TRUE,
   cfgs |-> <<Raises,
              Rows(<<Tok(<<"x">>, MIN_TOKEN_CONF + 1)>>),
              Rows(<<Tok(<<"x">>, 100), Tok(<<"x">>, 100)>>),
              Rows(<<Tok(<<"x">>, 100)>>),
              Rows(<<>>)>>,
   plain |-> [fail |-> TRUE, text |-> <<>>]]

\* An empty image: only whitespace and low-confidence rows, blank plain text.
BlankRun ==
  [loads |-> TRUE,
   cfgs |-> <<Rows(<<>>),
              Rows(<<Tok(<<" ">>, 100)>>),
              Rows(<<Tok(<<"x">>, MIN_TOKEN_CONF)>>),
              Rows(<<>>),
              Rows(<<>>)>>,
   plain |-> [fail |-> FALSE, text |-> <<"\n">>]]

\* An image on which every recognition call raises.
FailedRun ==
  [loads |-> TRUE,
   cfgs |-> <<Raises, Raises, Raises, Raises, Raises>>,
   plain |-> [fail |-> TRUE, text |-> <<>>]]

\* An image Image.open cannot read: no recognition call is reached.
UnreadableRun ==
  [loads |-> FALSE,
   cfgs |-> <<Raises, Raises, Raises, Raises, Raises>>,
   plain |-> [fail |-> TRUE, text |-> <<>>]]

EmbeddedRuns == {ClearRun, BlankRun, FailedRun, UnreadableRun}

\* extract_text_with_tesseract without the "if not TESSERACT_AVAILABLE" return
ExtractWithTesseract_AlwaysSearches(available, run, page_num, lang_config) ==
  IF ~run.loads THEN ErrorResult(page_num)
  ELSE SearchResult(SearchLoop(InitBest, 1, run.cfgs), run.plain,
                    page_num, lang_config)

\* extract_text_with_tesseract as one call, given what the engine does.
ExtractWithTesseract(available, run, page_num, lang_config) ==
  IF ~available THEN UnavailableResult(page_num)
  ELSE IF ~run.loads THEN ErrorResult(page_num)
  ELSE SearchResult(SearchLoop(InitBest, 1, run.cfgs), run.plain,
                    page_num, lang_config)

\* The pytesseract calls that call makes.
CallsMade(available, run) ==
  IF ~available \/ ~run.loads THEN 0
  ELSE NUM_CONFIGS
       + (IF NeedsFallback(SearchLoop(InitBest, 1, run.cfgs)) THEN 1 ELSE 0)

\* ------------------------------------------------------- Page Decomposer
\* The text of line j of a page (its spans concatenated): blank, or its own
\* words after a leading space.
BlankLine == <<" ">>

WordsLine(j) == <<" ", "Line", " ", "#" \o ToString(j)>>

\* The lines of a page, given which of them are blank.
PageLines(blank) ==
  [j \in 1..Len(blank) |-> IF blank[j] THEN BlankLine ELSE WordsLine(j)]

\* Each entry of page.get_images(): extracted, or not (CMYK, or Pixmap raises).
ImageOutcomes == {"ok", "skip"}

\* images.append({... "index": img_index ...}) for the entries extracted
RECURSIVE ExtractedFrom(_, _)
ExtractedFrom(image_list, img_index) ==
  IF img_index >= Len(image_list) THEN <<>>
  ELSE (IF image_list[img_index + 1] = "ok" THEN <<img_index>> ELSE <<>>)
       \o ExtractedFrom(image_list, img_index + 1)

ExtractedImages(image_list) == ExtractedFrom(image_list, 0)

\* the except block numbering its record page_num instead of page_num + 1
PageRecord_ErrorZeroBased(page_num, raises, lines, image_list) ==
  IF raises
  THEN [page_num |-> page_num, lines |-> <<>>, images |-> <<>>, error |-> TRUE]
  ELSE [page_num |-> page_num + 1, lines |-> lines,
        images |-> ExtractedImages(image_list), error |-> FALSE]

\* pages_data.append({...}) of the try block and of the except block
PageRecord(page_num, raises, lines, image_list) ==
  IF raises
  THEN [page_num |-> page_num + 1, lines |-> <<>>, images |-> <<>>, error |-> TRUE]
  ELSE [page_num |-> page_num + 1, lines |-> lines,
        images |-> ExtractedImages(image_list), error |-> FALSE]

RECURSIVE TotalLines(_)
TotalLines(pages) ==
  IF pages = <<>> THEN 0 ELSE Len(Head(pages).lines) + TotalLines(Tail(pages))

RECURSIVE TotalImages(_)
TotalImages(pages) ==
  IF pages = <<>> THEN 0 ELSE Len(Head(pages).images) + TotalImages(Tail(pages))

\* ------------------------------------------------------- Chunk Assembler
TextChunk(text, confidence, page, chunk_type, language, src) ==
  [text |-> text, confidence |-> confidence, page |-> page,
   chunk_type |-> chunk_type, language |-> language, src |-> src]

LineSep(preserve_layout) == IF preserve_layout THEN <<"\n">> ELSE <<" ">>

\* the text-block loop inserting each chunk at the front of the page's chunks
RECURSIVE TextBlocks_Reversed(_, _, _, _)
TextBlocks_Reversed(lines, j, page_num, preserve_layout) ==
  IF j > Len(lines) THEN [text |-> <<>>, chunks |-> <<>>]
  ELSE LET rest == TextBlocks_Reversed(lines, j + 1, page_num, preserve_layout)
       IN IF Strip(lines[j]) # <<>>
          THEN [text |-> lines[j] \o LineSep(preserve_layout) \o rest.text,
                chunks |-> rest.chunks
                           \o <<TextChunk(Strip(lines[j]), Frac(95, 100), page_num,
                                          "text", "none",
                                          [kind |-> "line", pos |-> j])>>]
          ELSE rest

\* the text-block loop without the "if line_text.strip()" test
RECURSIVE TextBlocks_KeepsBlank(_, _, _, _)
TextBlocks_KeepsBlank(lines, j, page_num, preserve_layout) ==
  IF j > Len(lines) THEN [text |-> <<>>, chunks |-> <<>>]
  ELSE LET rest == TextBlocks_KeepsBlank(lines, j + 1, page_num, preserve_layout)
       IN [text |-> lines[j] \o LineSep(preserve_layout) \o rest.text,
           chunks |-> <<TextChunk(Strip(lines[j]), Frac(95, 100), page_num,
                                  "text", "none",
                                  [kind |-> "line", pos |-> j])>>
                      \o rest.chunks]

\* The text-block loop of one page from line j on: page_text and chunks.
RECURSIVE TextBlocks(_, _, _, _)
TextBlocks(lines, j, page_num, preserve_layout) ==
  IF j > Len(lines) THEN [text |-> <<>>, chunks |-> <<>>]
  ELSE LET rest == TextBlocks(lines, j + 1, page_num, preserve_layout)
       IN IF Strip(lines[j]) # <<>>
          THEN [text |-> lines[j] \o LineSep(preserve_layout) \o rest.text,
                chunks |-> <<TextChunk(Strip(lines[j]), Frac(95, 100), page_num,
                                       "text", "none",
                                       [kind |-> "line", pos |-> j])>>
                           \o rest.chunks]
          ELSE rest

\* variant: an OCR chunk is kept only at the default threshold or above
HasText_Confident(ocr_result) ==
  /\ Strip(ocr_result.text) # <<>>
  /\ FracLe(<<7, 10>>, ocr_result.confidence)

\* the image loop without the "if ocr_result['text'].strip()" test
HasText_Always(ocr_result) == TRUE

\* if ocr_result["text"].strip()
HasText(ocr_result) == Strip(ocr_result.text) # <<>>

OcrPageText(ocr_result, preserve_layout) ==
  IF preserve_layout THEN <<"\n">> \o ocr_result.text \o <<"\n">>
  ELSE ocr_result.text \o <<" ">>

OcrChunk(ocr_result, page_num, index) ==
  TextChunk(ocr_result.text, ocr_result.confidence, page_num,
            ocr_result.chunk_type, ocr_result.language,
            [kind |-> "image", pos |-> index])

\* the page's text written before its header
PageSection_TextFirst(page_num, text) == text \o PageHeader(page_num) \o <<"\n">>

\* all_text += f"\n--- PAGE {page_num} ---\n{page_text}\n"
PageSection(page_num, text) == PageHeader(page_num) \o text \o <<"\n">>

\* ------------------------------------------------------------ characters
\* The scorer and the detector read a text character by character.  A
\* character is a one-character string; the Devanagari code points and the
\* control character are written by name.
UpperChars ==
  {"A", "B", "C", "D", "E", "F", "G", "H", "I", "J", "K", "L", "M",
   "N", "O", "P", "Q", "R", "S", "T", "U", "V", "W", "X", "Y", "Z"}

LowerChars ==
  {"a", "b", "c", "d", "e", "f", "g", "h", "i", "j", "k", "l", "m",
   "n", "o", "p", "q", "r", "s", "t", "u", "v", "w", "x", "y", "z"}

DigitChars == {"0", "1", "2", "3", "4", "5", "6", "7", "8", "9"}

\* Devanagari letters (category Lo) and dependent signs (categories Mn, Mc)
DevLetters == {"<HA>", "<THA>", "<KA>", "<PA>", "<RA>", "<SA>", "<MA>"}

DevSigns == {"<AI>", "<ANUSVARA>", "<AA>", "<E>", "<II>", "<O>", "<I>"}

\* c.isspace()
IsSpaceChar(c) == c \in {" ", "\n"}

\* c.isalnum()
IsAlnum(c) == c \in UpperChars \cup LowerChars \cup DigitChars \cup DevLetters

\* c.isprintable(): everything here but the newline and the control character
IsPrintable(c) == c \notin {"\n", "<NUL>"}

\* \w of the re module
IsWordChar(c) == IsAlnum(c) \/ c = "_"

\* str.lower(), one character
LowerOf ==
  ("A" :> "a") @@ ("B" :> "b") @@ ("C" :> "c") @@ ("D" :> "d") @@ ("E" :> "e")
  @@ ("F" :> "f") @@ ("G" :> "g") @@ ("H" :> "h") @@ ("I" :> "i") @@ ("J" :> "j")
  @@ ("K" :> "k") @@ ("L" :> "l") @@ ("M" :> "m") @@ ("N" :> "n") @@ ("O" :> "o")
  @@ ("P" :> "p") @@ ("Q" :> "q") @@ ("R" :> "r") @@ ("S" :> "s") @@ ("T" :> "t")
  @@ ("U" :> "u") @@ ("V" :> "v") @@ ("W" :> "w") @@ ("X" :> "x") @@ ("Y" :> "y")
  @@ ("Z" :> "z")

LowerChar(c) == IF c \in UpperChars THEN LowerOf[c] ELSE c

\* text.lower()
LowerText(s) == [i \in 1..Len(s) |-> LowerChar(s[i])]

\* word occurs in s at position i
OccursAt(s, word, i) ==
  /\ i + Len(word) - 1 <= Len(s)
  /\ \A k \in 1..Len(word) : s[i + k - 1] = word[k]

\* s.count(word) over positions lo..hi: the occurrences, taken from the left,
\* that do not overlap; free is the first position the next one may take
RECURSIVE ScanCount(_, _, _, _, _)
ScanCount(s, word, lo, hi, free) ==
  IF lo > hi THEN [count |-> 0, free |-> free]
  ELSE IF lo = hi
  THEN IF free <= lo /\ OccursAt(s, word, lo)
       THEN [count |-> 1, free |-> lo + Len(word)]
       ELSE [count |-> 0, free |-> free]
  ELSE LET mid == (lo + hi) \div 2
           left == ScanCount(s, word, lo, mid, free)
           right == ScanCount(s, word, mid + 1, hi, left.free)
       IN [count |-> left.count + right.count, free |-> right.free]

StrCount(s, word) ==
  LET found == {i \in 1..Len(s) : OccursAt(s, word, i)}
  IN IF \E i \in found : \E d \in 1..(Len(word) - 1) : i + d \in found
     THEN ScanCount(s, word, 1, Len(s), 1).count
     ELSE Cardinality(found)

\* sum(s.count(word) for word in words), word by word
RECURSIVE SumCounts(_, _)
SumCounts(s, words) ==
  IF words = <<>> THEN 0
  ELSE StrCount(s, Head(words)) + SumCounts(s, Tail(words))

\* the words of a list by their first character
ByFirstChar(words) ==
  [c \in {words[n][1] : n \in 1..Len(words)} |->
     {n \in 1..Len(words) : words[n][1] = c}]

\* every <<position, word>> at which a word of the list occurs in s
Occurrences(s, words, index) ==
  {p \in UNION {{<<i, n>> : n \in (IF s[i] \in DOMAIN index THEN index[s[i]] ELSE {})}
                : i \in 1..Len(s)} :
     OccursAt(s, words[p[2]], p[1])}

\* sum(s.count(word) for word in words): when no word overlaps an occurrence
\* of itself, every occurrence counts
CountAll(s, words, index) ==
  LET found == Occurrences(s, words, index)
  IN IF \E p \in found : \E d \in 1..(Len(words[p[2]]) - 1) :
          <<p[1] + d, p[2]>> \in found
     THEN SumCounts(s, words)
     ELSE Cardinality(found)

\* len(text.strip())
StrippedLen(s) ==
  IF \A i \in 1..Len(s) : IsSpaceChar(s[i]) THEN 0
  ELSE LET first == CHOOSE i \in 1..Len(s) :
                      /\ ~IsSpaceChar(s[i])
                      /\ \A k \in 1..(i - 1) : IsSpaceChar(s[k])
           last == CHOOSE i \in 1..Len(s) :
                     /\ ~IsSpaceChar(s[i])
                     /\ \A k \in (i + 1)..Len(s) : IsSpaceChar(s[k])
       IN last - first + 1

\* len(text.split())
SplitLen(s) ==
  Cardinality({i \in 1..Len(s) :
                 /\ ~IsSpaceChar(s[i])
                 /\ (i = 1 \/ IsSpaceChar(s[i - 1]))})

\* ---------------------------------------------------------- Quality Scorer
FracAdd(a, b) == Frac(a[1] * b[2] + b[1] * a[2], a[2] * b[2])

FracMul(a, b) == Frac(a[1] * b[1], a[2] * b[2])

FracMin(a, b) == IF FracLe(a, b) THEN a ELSE b

FracMax(a, b) == IF FracLe(a, b) THEN b ELSE a

CountChars(s, Class(_)) == Cardinality({i \in 1..Len(s) : Class(s[i])})

\* a \b can stand before position i, and after position j
WordStartsAt(s, i) == i = 1 \/ ~IsWordChar(s[i - 1])

WordEndsAt(s, j) == j = Len(s) \/ ~IsWordChar(s[j + 1])

\* re.search(r'\b[A-Z][a-z]+\b', text)
HasCapitalizedWord(s) ==
  \E i \in 1..Len(s) :
    /\ s[i] \in UpperChars
    /\ WordStartsAt(s, i)
    /\ \E j \in (i + 1)..Len(s) :
         /\ \A k \in (i + 1)..j : s[k] \in LowerChars
         /\ WordEndsAt(s, j)

\* re.search(r'\b\d+\b', text)
HasNumber(s) ==
  \E i \in 1..Len(s) :
    /\ s[i] \in DigitChars
    /\ WordStartsAt(s, i)
    /\ \E j \in i..Len(s) :
         /\ \A k \in i..j : s[k] \in DigitChars
         /\ WordEndsAt(s, j)

\* re.search(r'[.!?]\s+[A-Z]', text)
HasSentenceBoundary(s) ==
  \E i \in 1..Len(s) :
    /\ s[i] \in {".", "!", "?"}
    /\ \E k \in (i + 2)..Len(s) :
         /\ \A m \in (i + 1)..(k - 1) : IsSpaceChar(s[m])
         /\ s[k] \in UpperChars

COMMON_WORDS ==
  <<<<"t", "h", "e">>, <<"a", "n", "d">>, <<"o", "r">>, <<"o", "f">>,
    <<"t", "o">>, <<"i", "n">>, <<"f", "o", "r">>, <<"w", "i", "t", "h">>,
    <<"o", "n">>, <<"a", "t">>, <<"b", "y">>, <<"f", "r", "o", "m">>>>

\* re.search(r'\b(the|and|or|of|to|in|for|with|on|at|by|from)\b', text)
HasCommonWord(s) ==
  \E n \in 1..Len(COMMON_WORDS) : \E i \in 1..Len(s) :
    /\ OccursAt(s, COMMON_WORDS[n], i)
    /\ WordStartsAt(s, i)
    /\ WordEndsAt(s, i + Len(COMMON_WORDS[n]) - 1)

\* pattern_matches
PatternMatches(s) ==
  (IF HasCapitalizedWord(s) THEN 1 ELSE 0) + (IF HasNumber(s) THEN 1 ELSE 0)
  + (IF HasSentenceBoundary(s) THEN 1 ELSE 0) + (IF HasCommonWord(s) THEN 1 ELSE 0)

\* score = (printable / total) * 0.3
PrintableScore(s) == FracMul(Frac(CountChars(s, IsPrintable), Len(s)), <<3, 10>>)

\* the alphanumeric content bonus
AlnumBonus(s) ==
  LET alphanumeric_ratio == Frac(CountChars(s, IsAlnum), Len(s))
  IN IF FracLe(<<2, 5>>, alphanumeric_ratio) THEN <<2, 5>> ELSE alphanumeric_ratio

\* the length bonus
LengthBonus(s) ==
  IF Len(s) > 500 THEN <<1, 10>>
  ELSE IF Len(s) > 100 THEN <<1, 20>>
  ELSE <<0, 1>>

\* the pattern recognition bonus
PatternBonus(s) == IF PatternMatches(s) >= 3 THEN <<1, 5>> ELSE <<0, 1>>

\* whitespace_ratio = sum(1 for c in text if c.isspace()) / total
WhitespaceRatio(s) == Frac(CountChars(s, IsSpaceChar), Len(s))

\* the ratio of whitespace to the other characters instead
WhitespacePenalty_OverOthers(s) ==
  IF CountChars(s, IsSpaceChar) * 10 > 3 * (Len(s) - CountChars(s, IsSpaceChar))
  THEN <<-1, 10>> ELSE <<0, 1>>

\* if whitespace_ratio > 0.3: score -= 0.1
WhitespacePenalty(s) ==
  IF FracGt(WhitespaceRatio(s), <<3, 10>>) THEN <<-1, 10>> ELSE <<0, 1>>

\* the score before it is clamped
RawScore(s) ==
  FracAdd(FracAdd(FracAdd(FracAdd(PrintableScore(s), AlnumBonus(s)),
                          LengthBonus(s)),
                  PatternBonus(s)),
          WhitespacePenalty(s))

\* the score returned as it is
Clamp_None(score) == score

\* min(1.0, max(0.0, score))
Clamp(score) == FracMin(<<1, 1>>, FracMax(<<0, 1>>, score))

\* calculate_quality_score_comprehensive
QualityScore(s) ==
  IF s = <<>> \/ StrippedLen(s) < 5 THEN <<0, 1>>
  ELSE Clamp(RawScore(s))

\* ------------------------------------------------------- Language Detector
ENGLISH_WORDS ==
  <<<<"t", "h", "e">>, <<"a", "n", "d">>, <<"o", "r">>, <<"o", "f">>,
    <<"t", "o">>, <<"i", "n">>, <<"f", "o", "r">>, <<"w", "i", "t", "h">>,
    <<"o", "n">>, <<"a", "t">>, <<"b", "y">>, <<"f", "r", "o", "m">>,
    <<"t", "h", "i", "s">>, <<"t", "h", "a", "t">>,
    <<"t", "h", "e", "s", "e">>, <<"t", "h", "o", "s", "e">>>>

HINDI_WORDS ==
  <<<<"<HA>", "<AI>">>, <<"<HA>", "<AI>", "<ANUSVARA>">>,
    <<"<THA>", "<AA>">>, <<"<THA>", "<E>">>, <<"<KA>", "<II>">>,
    <<"<KA>", "<E>">>, <<"<KA>", "<O>">>, <<"<PA>", "<RA>">>,
    <<"<SA>", "<E>">>, <<"<MA>", "<E>", "<ANUSVARA>">>, <<"<KA>", "<AA>">>,
    <<"<KA>", "<I>">>>>

SPANISH_WORDS ==
  <<<<"e", "l">>, <<"l", "a">>, <<"d", "e">>, <<"q", "u", "e">>, <<"y">>,
    <<"a">>, <<"e", "n">>, <<"u", "n">>, <<"e", "s">>, <<"s", "e">>,
    <<"n", "o">>, <<"t", "e">>, <<"l", "o">>, <<"l", "e">>, <<"d", "a">>,
    <<"s", "u">>, <<"p", "o", "r">>, <<"s", "o", "n">>, <<"c", "o", "n">>,
    <<"p", "a", "r", "a">>>>

ENGLISH_THRESHOLD == 15

HINDI_THRESHOLD == 5

SPANISH_THRESHOLD == 10

EnglishIndex == ByFirstChar(ENGLISH_WORDS)

HindiIndex == ByFirstChar(HINDI_WORDS)

SpanishIndex == ByFirstChar(SPANISH_WORDS)

\* english_count, hindi_count, spanish_count of text_lower
EnglishCount(text_lower) == CountAll(text_lower, ENGLISH_WORDS, EnglishIndex)

HindiCount(text_lower) == CountAll(text_lower, HINDI_WORDS, HindiIndex)

SpanishCount(text_lower) == CountAll(text_lower, SPANISH_WORDS, SpanishIndex)

\* the detector with "at least" for "more than"
DetectLanguages_AtLeast(s) ==
  LET text_lower == LowerText(s)
      languages ==
        (IF EnglishCount(text_lower) >= ENGLISH_THRESHOLD THEN <<"en">> ELSE <<>>)
        \o (IF HindiCount(text_lower) >= HINDI_THRESHOLD THEN <<"hi">> ELSE <<>>)
        \o (IF SpanishCount(text_lower) >= SPANISH_THRESHOLD THEN <<"es">> ELSE <<>>)
  IN IF languages # <<>> THEN languages ELSE <<"unknown">>

\* detect_languages_comprehensive
DetectLanguages(s) ==
  LET text_lower == LowerText(s)
      languages ==
        (IF EnglishCount(text_lower) > ENGLISH_THRESHOLD THEN <<"en">> ELSE <<>>)
        \o (IF HindiCount(text_lower) > HINDI_THRESHOLD THEN <<"hi">> ELSE <<>>)
        \o (IF SpanishCount(text_lower) > SPANISH_THRESHOLD THEN <<"es">> ELSE <<>>)
  IN IF languages # <<>> THEN languages ELSE <<"unknown">>

\* ------------------------------------------------- texts as characters
\* The characters of the lexemes the pipeline writes.
WordSpelling ==
  ("---" :> <<"-", "-", "-">>)
  @@ ("PAGE" :> <<"P", "A", "G", "E">>)
  @@ ("Line" :> <<"L", "i", "n", "e">>)
  @@ ("x" :> <<"x">>)
  @@ ("y" :> <<"y">>)
  @@ ("[OCR" :> <<"[", "O", "C", "R">>)
  @@ ("processing" :> <<"p", "r", "o", "c", "e", "s", "s", "i", "n", "g">>)
  @@ ("failed" :> <<"f", "a", "i", "l", "e", "d">>)
  @@ ("for" :> <<"f", "o", "r">>)
  @@ ("image" :> <<"i", "m", "a", "g", "e">>)
  @@ ("on" :> <<"o", "n">>)
  @@ ("page" :> <<"p", "a", "g", "e">>)
  @@ ("[Tesseract" :> <<"[", "T", "e", "s", "s", "e", "r", "a", "c", "t">>)
  @@ ("OCR" :> <<"O", "C", "R">>)
  @@ ("not" :> <<"n", "o", "t">>)
  @@ ("available" :> <<"a", "v", "a", "i", "l", "a", "b", "l", "e">>)
  @@ ("-" :> <<"-">>)
  @@ ("install" :> <<"i", "n", "s", "t", "a", "l", "l">>)
  @@ ("Tesseract" :> <<"T", "e", "s", "s", "e", "r", "a", "c", "t">>)
  @@ ("engine]" :> <<"e", "n", "g", "i", "n", "e", "]">>)
  @@ ("error:" :> <<"e", "r", "r", "o", "r", ":">>)
  @@ ("cannot" :> <<"c", "a", "n", "n", "o", "t">>)
  @@ ("identify" :> <<"i", "d", "e", "n", "t", "i", "f", "y">>)
  @@ ("image]" :> <<"i", "m", "a", "g", "e", "]">>)
  @@ (" " :> <<" ">>)
  @@ ("\n" :> <<"\n">>)

DigitOf == <<"0", "1", "2", "3", "4", "5", "6", "7", "8", "9">>

\* str(n)
RECURSIVE Digits(_)
Digits(n) ==
  IF n < 10 THEN <<DigitOf[n + 1]>>
  ELSE Digits(n \div 10) \o <<DigitOf[(n % 10) + 1]>>

\* The characters of one lexeme: a word, a number, "#" and a number, or a
\* number and "]".
LexemeChars(lexeme) ==
  IF lexeme \in DOMAIN WordSpelling THEN WordSpelling[lexeme]
  ELSE LET n == CHOOSE n \in 0..MAX_PAGES_PER_REQUEST :
                  lexeme \in {ToString(n), "#" \o ToString(n), ToString(n) \o "]"}
       IN IF lexeme = ToString(n) THEN Digits(n)
          ELSE IF lexeme = "#" \o ToString(n) THEN <<"#">> \o Digits(n)
          ELSE Digits(n) \o <<"]">>

\* The characters of a text.
RECURSIVE Characters(_)
Characters(text) ==
  IF text = <<>> THEN <<>>
  ELSE LexemeChars(Head(text)) \o Characters(Tail(text))

\* word_count, character_count, quality_score and language of a text
\* variant: the character count is taken of the trimmed text
DocumentMetrics_TrimmedLength(text) ==
  LET chars == Characters(text)
  IN [word_count |-> SplitLen(chars),
      character_count |-> StrippedLen(chars),
      quality_score |-> QualityScore(chars),
      language |-> Head(DetectLanguages(chars))]

\* word_count, character_count, quality_score and language of a full text
DocumentMetrics(text) ==
  LET chars == Characters(text)
  IN [word_count |-> SplitLen(chars),
      character_count |-> Len(chars),
      quality_score |-> QualityScore(chars),
      language |-> Head(DetectLanguages(chars))]

\* variant: only the tag of the last OCR chunk is kept
TrackLanguage_KeepsLast(languages, ocr_result) ==
  IF ocr_result.language # "" THEN {ocr_result.language} ELSE languages

\* if ocr_result["language"]: extracted_languages.add(ocr_result["language"])
TrackLanguage(languages, ocr_result) ==
  IF ocr_result.language # "" THEN languages \cup {ocr_result.language}
  ELSE languages

\* variant: the standalone image reports the detector's first language
ImageLanguages_Detected(result) ==
  <<Head(DetectLanguages(Characters(result.text)))>>

\* [result["language"]] if result["language"] else []
ImageLanguages(result) ==
  IF result.language # "" THEN <<result.language>> ELSE <<>>

\* list(extracted_languages): the elements of the set, each once, in the
\* iteration order of the set, which depends on the string hashes of the
\* process and not on the order of insertion
ListOfSet(languages) ==
  {order \in [1..Cardinality(languages) -> languages] :
     \A tag \in languages : \E n \in 1..Cardinality(languages) : order[n] = tag}

\* ----------------------------------------------------------------- state
VARIABLES
  TESSERACT_AVAILABLE,   \* module flag set by the import block
  TESSERACT_CONFIGURED,  \* module flag set by the configuration block
  pc,                    \* where the request is
  req,                   \* the request: body size, media type, options
  warnings,              \* extract_text's warnings list
  doc_len,               \* len(doc) of the opened PDF
  pages_data,            \* the Page Decomposer's records so far
  page_i,                \* position of the assembly loop in pages_data
  img_i,                 \* position of the image loop in the page's images
  page_text,             \* page_text of the page being assembled
  all_text,
  all_chunks,
  has_images,
  extracted_languages,
  search,                \* the search's locals: next config k, best so far
  ocr_log,               \* history: the result of every search call made
  recog_calls,           \* history: pytesseract recognition calls made
  tried,                 \* history: per config tried, its candidate
  response,              \* what the caller gets
  sample,                \* a text handed to the scorer and the detector
  scores,                \* history: what the scorer returned for sample
  detections,            \* history: what the detector returned for sample
  attempt,               \* history: the last config tried alone, its outcome
  race,                  \* the five configs evaluated in any order
  prep,                  \* a call of preprocess_image_for_ocr: its locals
  tess                   \* TesseractConfig: the config file, the calls made

vars == <<TESSERACT_AVAILABLE, TESSERACT_CONFIGURED, pc, req, warnings, doc_len,
          pages_data, page_i, img_i, page_text, all_text, all_chunks,
          has_images, extracted_languages, search, ocr_log, recog_calls,
          tried, response, sample, scores, detections, attempt, race, prep,
          tess>>

textvars == <<sample, scores, detections>>

toolvars == <<prep, tess>>

ghostvars == <<attempt, race, toolvars>>

startup == <<TESSERACT_AVAILABLE, TESSERACT_CONFIGURED>>

pdfvars == <<doc_len, pages_data, page_i, img_i, page_text, all_text, all_chunks,
             has_images, extracted_languages>>

ocrvars == <<search, ocr_log, recog_calls>>

\* languages after split(','), strip and filter; <<>> when nothing is left
LanguageInputs == {<<"eng", "hin">>}

\* if not lang_list: lang_list = ['eng']
LangList(languages) == IF languages = <<>> THEN <<"eng">> ELSE languages

LangConfig == JoinPlus(LangList(req.languages))

\* confidence_threshold: float = Form(0.7)
DEFAULT_THRESHOLD == <<7, 10>>

\* the confidence_threshold values of the requests: the default and 1.0
Thresholds == {DEFAULT_THRESHOLD, <<1, 1>>}

NoRequest ==
  [size |-> "none", file_type |-> "absent", extract_images |-> TRUE,
   preserve_layout |-> TRUE, languages |-> <<>>,
   confidence_threshold |-> DEFAULT_THRESHOLD]

NoResponse ==
  [kind |-> "none", status |-> 0, success |-> FALSE, text |-> <<>>,
   chunks |-> <<>>, pages |-> 0, processing_time |-> 0,
   quality_score |-> <<0, 1>>, word_count |-> 0, character_count |-> 0,
   has_images |-> FALSE, language |-> "unknown",
   extracted_languages |-> <<>>, error |-> "", warnings |-> <<>>]

\* time.time() - start_time: the clock has not moved, or it has moved on
Elapsed == {0, 1}

\* raise HTTPException(status_code=..., detail=...)
HttpError(status, detail) ==
  [NoResponse EXCEPT !.kind = "http_error", !.status = status, !.error = detail]

\* variant: the failed result starts a fresh warnings list
FailedResponse_NoWarnings(error, warns, elapsed) ==
  [NoResponse EXCEPT !.kind = "result", !.status = 200, !.error = error,
                     !.processing_time = elapsed]

\* the OCRResponse of "except Exception as e"
FailedResponse(error, warns, elapsed) ==
  [NoResponse EXCEPT !.kind = "result", !.status = 200, !.error = error,
                     !.warnings = warns, !.processing_time = elapsed]

\* the OCRResponse of the try block, from the dict process_* returned
SuccessResponse(text, chunks, pages, images, languages, warns, metrics, elapsed) ==
  [kind |-> "result", status |-> 200, success |-> TRUE, text |-> text,
   chunks |-> chunks, pages |-> pages, processing_time |-> elapsed,
   quality_score |-> metrics.quality_score, word_count |-> metrics.word_count,
   character_count |-> metrics.character_count, has_images |-> images,
   language |-> metrics.language, extracted_languages |-> languages,
   error |-> "", warnings |-> warns]

IdleSearch == [k |-> 0, best |-> InitBest]

\* no config was tried alone
NoAttempt == [made |-> FALSE, outcome |-> [fail |-> TRUE, tokens |-> <<>>],
              before |-> InitBest]

\* ------------------------------------------------- Image Preprocessor
\* An image: its mode, whether a side is under min_size, and the operations
\* applied to it so far.
NoImage == [mode |-> "", small |-> FALSE, applied |-> <<>>]

Modes == {"RGB", "RGBA", "L"}

Images == {[mode |-> m, small |-> sm, applied |-> <<>>] : m \in Modes, sm \in BOOLEAN}

\* the steps of preprocess_image_for_ocr, in order
PreprocessSteps == <<"convert", "resize", "gray", "median", "threshold", "close">>

\* if image.mode != 'RGB': image = image.convert('RGB')
ConvertRgb(image) ==
  IF image.mode # "RGB"
  THEN [image EXCEPT !.mode = "RGB", !.applied = Append(@, "convert")]
  ELSE image

\* if width < min_size or height < min_size: image = image.resize(...)
Resize(image) ==
  IF image.small
  THEN [image EXCEPT !.small = FALSE, !.applied = Append(@, "resize")]
  ELSE image

\* gray = cv2.cvtColor(cv2.cvtColor(np.array(image), RGB2BGR), BGR2GRAY)
Grayscale(image) == [image EXCEPT !.mode = "L", !.applied = Append(@, "gray")]

\* denoised = cv2.medianBlur(gray, 3)
MedianBlur(gray) == [gray EXCEPT !.applied = Append(@, "median")]

\* thresh = cv2.adaptiveThreshold(denoised, ...)
AdaptiveThreshold(denoised) == [denoised EXCEPT !.applied = Append(@, "threshold")]

\* cleaned = cv2.morphologyEx(thresh, cv2.MORPH_CLOSE, kernel)
MorphClose(thresh) == [thresh EXCEPT !.applied = Append(@, "close")]

\* step n applied to an image
ApplyStep(n, image) ==
  CASE n = 1 -> ConvertRgb(image)
    [] n = 2 -> Resize(image)
    [] n = 3 -> Grayscale(image)
    [] n = 4 -> MedianBlur(image)
    [] n = 5 -> AdaptiveThreshold(image)
    [] n = 6 -> MorphClose(image)

\* whether step n calls anything on the image, and so can raise
StepRuns(n, image) ==
  CASE n = 1 -> image.mode # "RGB"
    [] n = 2 -> image.small
    [] OTHER -> TRUE

\* the image after steps 1..n
RECURSIVE StepsThrough(_, _)
StepsThrough(n, image) ==
  IF n = 0 THEN image ELSE ApplyStep(n, StepsThrough(n - 1, image))

\* no call of the preprocessor is under way
NoPrep == [input |-> NoImage, fail_at |-> 0, step |-> 0, image |-> NoImage,
           work |-> NoImage, returned |-> NoImage, warned |-> FALSE]

\* ----------------------------------------------------- TesseractConfig
\* The config file: absent, unreadable as JSON, or a dict whose
\* "tesseract_path" is path ("" when the key is missing).
Absent == [state |-> "absent", path |-> ""]

Corrupt == [state |-> "corrupt", path |-> ""]

Stored(path) == [state |-> "ok", path |-> path]

\* possible_paths of find_tesseract_binary (two of them)
Paths == {"tesseract", "/usr/bin/tesseract"}

ConfigFiles == {Absent, Corrupt} \cup {Stored(path) : path \in Paths \cup {""}}

\* variant: the stored path is never read
LoadedPath_Ignored(file) == ""

\* config = self.load_config(); tesseract_path = config.get("tesseract_path")
LoadedPath(file) == IF file.state = "ok" THEN file.path ELSE ""

\* what open(self.config_file, 'w') and json.dump can do
Writes == {"written", "refused", "torn"}

\* save_config: the file after the write, whose failure is only printed
SaveConfig(file, path, write) ==
  CASE write = "written" -> Stored(path)
    [] write = "refused" -> file
    [] write = "torn" -> Corrupt

\* the summary of a call that did nothing yet
NoCall == [loaded |-> "", searched |-> FALSE, chosen |-> "", write |-> "none",
           probe |-> "none", returned |-> FALSE]

\* TesseractConfig is not in use
NoTess == [installed |-> FALSE, file |-> Absent, cmd |-> "", pc |-> "off",
           call |-> NoCall, log |-> <<>>]

\* no evaluation in any order is under way
NoRace == [cfgs |-> <<>>, pending |-> {}, order |-> <<>>, best |-> InitBest]

ServiceStart ==
  /\ TESSERACT_AVAILABLE \in BOOLEAN
  /\ TESSERACT_CONFIGURED \in BOOLEAN
  /\ pc = "idle"
  /\ req = NoRequest
  /\ warnings = <<>>
  /\ doc_len = 0
  /\ pages_data = <<>>
  /\ page_i = 0
  /\ img_i = 0
  /\ page_text = <<>>
  /\ all_text = <<>>
  /\ all_chunks = <<>>
  /\ has_images = FALSE
  /\ extracted_languages = {}
  /\ search = IdleSearch
  /\ ocr_log = <<>>
  /\ recog_calls = 0
  /\ tried = <<>>
  /\ response = NoResponse
  /\ sample = <<>>
  /\ scores = <<>>
  /\ detections = <<>>
  /\ attempt = NoAttempt
  /\ race = NoRace

Init == ServiceStart /\ prep = NoPrep /\ tess = NoTess

\* check_tesseract_installation()[0]; probe: get_tesseract_version() returns
CheckTesseract(probe) ==
  IF ~TESSERACT_AVAILABLE THEN FALSE
  ELSE IF ~TESSERACT_CONFIGURED THEN FALSE
  ELSE probe

\* warnings.append(f"Tesseract OCR not available: {tesseract_error}")
CheckWarnings(probe) ==
  IF CheckTesseract(probe) THEN <<>> ELSE <<"Tesseract OCR not available">>

\* extract_text up to the dispatch on the media type, for a request whose
\* confidence_threshold is one of thresholds
ReceiveRequest(thresholds) ==
  /\ pc = "idle"
  /\ \E size \in {"empty", "ok", "big"},
        file_type \in {"pdf", "image", "other", "absent"},
        extract_images \in BOOLEAN, preserve_layout \in BOOLEAN,
        languages \in LanguageInputs, confidence_threshold \in thresholds,
        probe \in BOOLEAN, elapsed \in Elapsed :
       /\ req' = [size |-> size, file_type |-> file_type,
                  extract_images |-> extract_images,
                  preserve_layout |-> preserve_layout, languages |-> languages,
                  confidence_threshold |-> confidence_threshold]
       /\ IF size = "empty"
          THEN /\ response' = HttpError(400, "Empty file")
               /\ pc' = "done"
               /\ UNCHANGED warnings
          ELSE IF size = "big"
          THEN /\ response' = HttpError(413, "File too large")
               /\ pc' = "done"
               /\ UNCHANGED warnings
          ELSE /\ warnings' = CheckWarnings(probe)
               /\ CASE file_type = "absent" ->
                         \* file_type.lower() on None: AttributeError
                         /\ response' = FailedResponse("AttributeError", warnings',
                                                       elapsed)
                         /\ pc' = "done"
                    [] file_type = "pdf" ->
                         /\ pc' = "open"
                         /\ UNCHANGED response
                    [] file_type = "image" ->
                         /\ pc' = "ocr_start"
                         /\ UNCHANGED response
                    [] OTHER ->
                         /\ response' = HttpError(400, "Unsupported file type")
                         /\ pc' = "done"
  /\ UNCHANGED <<startup, textvars, ghostvars, pdfvars, ocrvars, tried>>

\* extract_text called with the default confidence_threshold
ExtractText == ReceiveRequest({DEFAULT_THRESHOLD})

\* extract_text called with any confidence_threshold
ExtractTextWithThreshold == ReceiveRequest(Thresholds)

\* fitz.open(stream=pdf_data, filetype="pdf")
OpenPdf ==
  /\ pc = "open"
  /\ \E opens \in BOOLEAN, n \in (0..MaxSize) \cup {MAX_PAGES_PER_REQUEST + 1},
        elapsed \in Elapsed :
       IF opens
       THEN /\ doc_len' = n
            /\ pc' = "decompose"
            /\ UNCHANGED response
       ELSE /\ response' = FailedResponse("cannot open document", warnings, elapsed)
            /\ pc' = "done"
            /\ UNCHANGED doc_len
  /\ UNCHANGED <<startup, textvars, ghostvars, req, warnings, pages_data, page_i, img_i, page_text,
                 all_text, all_chunks, has_images, extracted_languages,
                 ocrvars, tried>>

\* What the document may still hold; the pages of an oversized document
\* are left empty.
Room ==
  IF doc_len > MaxSize THEN 0
  ELSE MaxSize - doc_len - TotalLines(pages_data) - TotalImages(pages_data)

\* one iteration of "for page_num in range(len(doc))"
DecomposePage ==
  /\ pc = "decompose"
  /\ Len(pages_data) < doc_len
  /\ \E raises \in BOOLEAN, nlines \in 0..Room, nimages \in 0..Room :
     \E blank \in [1..nlines -> BOOLEAN],
        image_list \in [1..nimages -> ImageOutcomes] :
       LET lines == PageLines(blank)
       IN
       \* at most MaxSize pages, lines and images in one document
       /\ nlines + nimages <= Room
       \* what a page that raises holds is never read
       /\ raises => nlines = 0 /\ nimages = 0
       /\ doc_len > MaxSize => ~raises
       /\ pages_data' = Append(pages_data,
                               PageRecord(Len(pages_data), raises, lines, image_list))
  /\ UNCHANGED <<startup, textvars, ghostvars, pc, req, warnings, doc_len, page_i, img_i, page_text,
                 all_text, all_chunks, has_images, extracted_languages,
                 ocrvars, tried, response>>

\* the page-count ceiling, then the locals of process_pdf_comprehensive
StartAssembly ==
  /\ pc = "decompose"
  /\ Len(pages_data) = doc_len
  /\ IF Len(pages_data) > MAX_PAGES_PER_REQUEST
     THEN /\ response' = HttpError(413, "Too many pages")
          /\ pc' = "done"
          /\ UNCHANGED page_i
     ELSE /\ pc' = "page"
          /\ page_i' = 1
          /\ UNCHANGED response
  /\ UNCHANGED <<startup, textvars, ghostvars, req, warnings, doc_len, pages_data, img_i, page_text,
                 all_text, all_chunks, has_images, extracted_languages,
                 ocrvars, tried>>

\* variant: the images of a page are processed whatever extract_images is
AssemblePage_IgnoresFlag ==
  /\ pc = "page"
  /\ page_i <= Len(pages_data)
  /\ LET page_data == pages_data[page_i]
         blocks == TextBlocks(page_data.lines, 1, page_data.page_num,
                              req.preserve_layout)
     IN IF page_data.error
        THEN /\ page_i' = page_i + 1
             /\ UNCHANGED <<pc, img_i, page_text, all_text, all_chunks, has_images>>
        ELSE /\ all_chunks' = all_chunks \o blocks.chunks
             /\ IF page_data.images # <<>>
                THEN /\ has_images' = TRUE
                     /\ page_text' = blocks.text
                     /\ img_i' = 1
                     /\ pc' = "images"
                     /\ UNCHANGED <<page_i, all_text>>
                ELSE /\ all_text' = all_text
                                    \o PageSection(page_data.page_num, blocks.text)
                     /\ page_i' = page_i + 1
                     /\ UNCHANGED <<pc, img_i, page_text, has_images>>
  /\ UNCHANGED <<startup, textvars, ghostvars, req, warnings, doc_len, pages_data,
                 extracted_languages, ocrvars, tried, response>>

\* one iteration of "for page_data in pages_data", up to the image loop
AssemblePage ==
  /\ pc = "page"
  /\ page_i <= Len(pages_data)
  /\ LET page_data == pages_data[page_i]
         blocks == TextBlocks(page_data.lines, 1, page_data.page_num,
                              req.preserve_layout)
     IN IF page_data.error
        THEN \* continue
             /\ page_i' = page_i + 1
             /\ UNCHANGED <<pc, img_i, page_text, all_text, all_chunks, has_images>>
        ELSE /\ all_chunks' = all_chunks \o blocks.chunks
             /\ IF req.extract_images /\ page_data.images # <<>>
                THEN /\ has_images' = TRUE
                     /\ page_text' = blocks.text
                     /\ img_i' = 1
                     /\ pc' = "images"
                     /\ UNCHANGED <<page_i, all_text>>
                ELSE /\ all_text' = all_text
                                    \o PageSection(page_data.page_num, blocks.text)
                     /\ page_i' = page_i + 1
                     /\ UNCHANGED <<pc, img_i, page_text, has_images>>
  /\ UNCHANGED <<startup, textvars, ghostvars, req, warnings, doc_len, pages_data,
                 extracted_languages, ocrvars, tried, response>>

\* one iteration of "for img_data in page_data['images']"; after the last
\* image, the page's section is appended to all_text
OcrImage ==
  /\ pc = "images"
  /\ LET page_data == pages_data[page_i]
         index == page_data.images[img_i]
     IN \E run \in EmbeddedRuns :
          LET ocr_result == ExtractWithTesseract(TESSERACT_AVAILABLE, run,
                                                 page_data.page_num, LangConfig)
              text == IF HasText(ocr_result)
                      THEN page_text \o OcrPageText(ocr_result, req.preserve_layout)
                      ELSE page_text
          IN /\ ocr_log' = Append(ocr_log,
                                  [page |-> page_data.page_num, index |-> index,
                                   result |-> ocr_result])
             /\ recog_calls' = recog_calls + CallsMade(TESSERACT_AVAILABLE, run)
             /\ IF HasText(ocr_result)
                THEN /\ all_chunks' = Append(all_chunks,
                                             OcrChunk(ocr_result, page_data.page_num, index))
                     /\ extracted_languages' =
                          TrackLanguage(extracted_languages, ocr_result)
                ELSE UNCHANGED <<all_chunks, extracted_languages>>
             /\ IF img_i = Len(page_data.images)
                THEN /\ all_text' = all_text \o PageSection(page_data.page_num, text)
                     /\ page_text' = <<>>
                     /\ img_i' = 0
                     /\ page_i' = page_i + 1
                     /\ pc' = "page"
                ELSE /\ page_text' = text
                     /\ img_i' = img_i + 1
                     /\ UNCHANGED <<all_text, page_i, pc>>
  /\ UNCHANGED <<startup, textvars, ghostvars, req, warnings, doc_len, pages_data, has_images,
                 search, tried, response>>

\* the returned dict of process_pdf_comprehensive, and the OCRResponse
Finish ==
  /\ pc = "page"
  /\ page_i > Len(pages_data)
  /\ LET metrics == DocumentMetrics(all_text)
     IN \E elapsed \in Elapsed, languages \in ListOfSet(extracted_languages) :
          response' = SuccessResponse(all_text, all_chunks, Len(pages_data),
                                      has_images, languages, warnings,
                                      metrics, elapsed)
  /\ pc' = "done"
  /\ UNCHANGED <<startup, textvars, ghostvars, req, warnings, pdfvars, ocrvars, tried>>

\* extract_text_with_tesseract on a standalone image, up to the config loop
OcrStart ==
  /\ pc = "ocr_start"
  /\ IF ~TESSERACT_AVAILABLE
     THEN /\ ocr_log' = Append(ocr_log, [page |-> 1, index |-> 0,
                                         result |-> UnavailableResult(1)])
          /\ pc' = "ocr_return"
          /\ UNCHANGED search
     ELSE \E loads \in BOOLEAN :
            IF loads
            THEN /\ search' = [k |-> 1, best |-> InitBest]
                 /\ pc' = "ocr_loop"
                 /\ UNCHANGED ocr_log
            ELSE \* Image.open raises
                 /\ ocr_log' = Append(ocr_log, [page |-> 1, index |-> 0,
                                                result |-> ErrorResult(1)])
                 /\ pc' = "ocr_return"
                 /\ UNCHANGED search
  /\ UNCHANGED <<startup, textvars, ghostvars, req, warnings, pdfvars, recog_calls, tried, response>>

\* variant: a configuration that raised is tried again
OcrTryConfig_Retry(outcome) ==
  /\ pc = "ocr_loop"
  /\ search.k <= NUM_CONFIGS
  /\ recog_calls <= NUM_CONFIGS
  /\ search' = [k |-> IF outcome.fail THEN search.k ELSE search.k + 1,
                best |-> ConfigStep(search.best, search.k, outcome)]
  /\ recog_calls' = recog_calls + 1
  /\ UNCHANGED <<startup, textvars, ghostvars, pc, req, warnings, pdfvars, ocr_log, response>>

\* one iteration of "for config in configs"
OcrTryConfig(outcome) ==
  /\ pc = "ocr_loop"
  /\ search.k <= NUM_CONFIGS
  /\ search' = [k |-> search.k + 1,
                best |-> ConfigStep(search.best, search.k, outcome)]
  /\ recog_calls' = recog_calls + 1
  /\ UNCHANGED <<startup, textvars, ghostvars, pc, req, warnings, pdfvars, ocr_log, response>>

TryConfig ==
  \E outcome \in ConfigOutcomes : OcrTryConfig(outcome) /\ UNCHANGED tried

\* the fallback block and the return of extract_text_with_tesseract
OcrReturn ==
  /\ pc = "ocr_loop"
  /\ search.k > NUM_CONFIGS
  /\ \E plain \in PlainOutcomes :
       ocr_log' = Append(ocr_log,
                         [page |-> 1, index |-> 0,
                          result |-> SearchResult(search.best, plain, 1, LangConfig)])
  /\ recog_calls' = recog_calls + (IF NeedsFallback(search.best) THEN 1 ELSE 0)
  /\ pc' = "ocr_return"
  /\ UNCHANGED <<startup, textvars, ghostvars, req, warnings, pdfvars, search, tried, response>>

\* process_image_comprehensive after the search, and the OCRResponse
ProcessImage ==
  /\ pc = "ocr_return"
  /\ LET result == ocr_log[Len(ocr_log)].result
         metrics == DocumentMetrics(result.text)
     IN \E elapsed \in Elapsed :
          response' = SuccessResponse(result.text,
                                      <<OcrChunk(result, 1, 0)>>, 1, TRUE,
                                      ImageLanguages(result), warnings,
                                      metrics, elapsed)
  /\ pc' = "done"
  /\ UNCHANGED <<startup, textvars, ghostvars, req, warnings, pdfvars, ocrvars, tried>>

Next ==
  \/ ExtractText
  \/ OpenPdf
  \/ DecomposePage
  \/ StartAssembly
  \/ AssemblePage
  \/ OcrImage
  \/ Finish
  \/ OcrStart
  \/ TryConfig
  \/ OcrReturn
  \/ ProcessImage

Spec == Init /\ [][Next]_vars

\* ------------------------------------- requests over confidence_threshold
\* The service with Tesseract found and configured at startup.
InitReady ==
  /\ Init
  /\ TESSERACT_AVAILABLE
  /\ TESSERACT_CONFIGURED

NextThreshold ==
  \/ ExtractTextWithThreshold
  \/ OpenPdf
  \/ DecomposePage
  \/ StartAssembly
  \/ AssemblePage
  \/ OcrImage
  \/ Finish
  \/ OcrStart
  \/ TryConfig
  \/ OcrReturn
  \/ ProcessImage

SpecThreshold == InitReady /\ [][NextThreshold]_vars

\* ---------------------------------------------------- the search, traced
\* The candidate one image_to_data outcome gives: whether any token was
\* kept, and then current_text and current_confidence.
Candidate(outcome) ==
  IF outcome.fail \/ TextParts(outcome.tokens) = <<>>
  THEN [survived |-> FALSE, text |-> <<>>, confidence |-> <<0, 1>>]
  ELSE [survived |-> TRUE, text |-> CurrentText(outcome.tokens),
        confidence |-> CurrentConfidence(outcome.tokens)]

\* The state of a standalone-image request when the config loop begins.
LoopEntry ==
  /\ TESSERACT_AVAILABLE = TRUE
  /\ TESSERACT_CONFIGURED = TRUE
  /\ pc = "ocr_loop"
  /\ req = [size |-> "ok", file_type |-> "image", extract_images |-> TRUE,
            preserve_layout |-> TRUE, languages |-> <<"eng", "hin">>,
            confidence_threshold |-> DEFAULT_THRESHOLD]
  /\ warnings = <<>>
  /\ doc_len = 0
  /\ pages_data = <<>>
  /\ page_i = 0
  /\ img_i = 0
  /\ page_text = <<>>
  /\ all_text = <<>>
  /\ all_chunks = <<>>
  /\ has_images = FALSE
  /\ extracted_languages = {}
  /\ search = [k |-> 1, best |-> InitBest]
  /\ ocr_log = <<>>
  /\ recog_calls = 0
  /\ tried = <<>>
  /\ response = NoResponse
  /\ sample = <<>>
  /\ scores = <<>>
  /\ detections = <<>>
  /\ attempt = NoAttempt
  /\ prep = NoPrep
  /\ tess = NoTess

InitSearch == LoopEntry /\ race = NoRace

TracedTryConfig ==
  \E outcome \in ConfigOutcomes :
    OcrTryConfig(outcome) /\ tried' = Append(tried, Candidate(outcome))

NextSearch ==
  \/ TracedTryConfig
  \/ OcrReturn
  \/ ProcessImage

SpecSearch == InitSearch /\ [][NextSearch]_vars

\* ------------------------------------------ one configuration, observed
\* one iteration of "for config in configs", with what image_to_data gave
\* and the best so far kept for the record
AttemptConfig ==
  /\ pc = "ocr_loop"
  /\ search.k <= NUM_CONFIGS
  /\ \E outcome \in ConfigOutcomes :
       /\ search' = [k |-> search.k + 1,
                     best |-> ConfigStep(search.best, search.k, outcome)]
       /\ attempt' = [made |-> TRUE, outcome |-> outcome, before |-> search.best]
  /\ recog_calls' = recog_calls + 1
  /\ UNCHANGED <<startup, textvars, race, toolvars, pc, req, warnings, pdfvars,
                 ocr_log, tried, response>>

NextAttempt == AttemptConfig

SpecAttempt == InitSearch /\ [][NextAttempt]_vars

\* ------------------------------------ the configurations, in any order
\* What the five image_to_data calls may give: an exception, a weak word, a
\* sure word, two sure words.
RaceOutcomes ==
  {Raises,
   Rows(<<Tok(<<"x">>, MIN_TOKEN_CONF + 1)>>),
   Rows(<<Tok(<<"x">>, 100)>>),
   Rows(<<Tok(<<"x">>, 100), Tok(<<"x">>, 100)>>)}

InitRace ==
  /\ LoopEntry
  /\ race \in {[cfgs |-> cfgs, pending |-> 1..NUM_CONFIGS, order |-> <<>>,
                 best |-> InitBest] : cfgs \in [1..NUM_CONFIGS -> RaceOutcomes]}

\* the body of the config loop for any configuration not yet evaluated
EvaluateAny ==
  /\ \E k \in race.pending :
       race' = [race EXCEPT !.pending = @ \ {k},
                            !.order = Append(@, k),
                            !.best = ConfigStep(@, k, race.cfgs[k])]
  /\ UNCHANGED <<startup, textvars, attempt, toolvars, pc, req, warnings,
                 pdfvars, ocrvars, tried, response>>

NextRace == EvaluateAny

SpecRace == InitRace /\ [][NextRace]_vars

\* ------------------------------------------- the preprocessor, alone
\* A call of preprocess_image_for_ocr(image) in which step fail_at raises
\* (0: no step raises); a step that calls nothing cannot raise.
PrepCalls ==
  {call \in {[input |-> image, fail_at |-> k, step |-> 1, image |-> image,
              work |-> NoImage, returned |-> NoImage, warned |-> FALSE] :
                image \in Images, k \in 0..Len(PreprocessSteps)} :
     call.fail_at # 0 =>
       StepRuns(call.fail_at, StepsThrough(call.fail_at - 1, call.input))}

InitPreprocess ==
  /\ ServiceStart
  /\ TESSERACT_AVAILABLE
  /\ TESSERACT_CONFIGURED
  /\ tess = NoTess
  /\ prep \in PrepCalls

othervars == <<startup, textvars, attempt, race, pc, req, warnings, pdfvars,
               ocrvars, tried, response>>

\* one statement of the try block: steps 1 and 2 rebind "image", steps 3 to
\* 6 bind new names (gray, denoised, thresh, cleaned)
PreprocessStep ==
  /\ prep.step \in 1..Len(PreprocessSteps)
  /\ prep.step # prep.fail_at
  /\ prep' = IF prep.step <= 2
             THEN [prep EXCEPT !.image = ApplyStep(prep.step, @),
                               !.step = @ + 1]
             ELSE [prep EXCEPT !.work = ApplyStep(prep.step,
                                                  IF prep.step = 3
                                                  THEN prep.image ELSE @),
                               !.step = @ + 1]
  /\ UNCHANGED <<othervars, tess>>

\* except Exception as e: logger.warning(...); return image
PreprocessExcept ==
  /\ prep.step \in 1..Len(PreprocessSteps)
  /\ prep.step = prep.fail_at
  /\ prep' = [prep EXCEPT !.returned = prep.image, !.warned = TRUE, !.step = 0]
  /\ UNCHANGED <<othervars, tess>>

\* processed_image = Image.fromarray(cleaned); return processed_image
PreprocessReturn ==
  /\ prep.step = Len(PreprocessSteps) + 1
  /\ prep' = [prep EXCEPT !.returned = prep.work, !.step = 0]
  /\ UNCHANGED <<othervars, tess>>

NextPreprocess ==
  \/ PreprocessStep
  \/ PreprocessExcept
  \/ PreprocessReturn

SpecPreprocess == InitPreprocess /\ [][NextPreprocess]_vars

\* --------------------------------------------- configure_pytesseract
InitConfigure ==
  /\ ServiceStart
  /\ TESSERACT_AVAILABLE
  /\ TESSERACT_CONFIGURED
  /\ prep = NoPrep
  /\ tess \in {[installed |-> installed, file |-> file, cmd |-> "", pc |-> "idle",
                 call |-> NoCall, log |-> <<>>] :
                  installed \in BOOLEAN, file \in ConfigFiles}

\* the call returns value: the summary of the call goes to the log
Returned(call, value) == Append(tess.log, [call EXCEPT !.returned = value])

\* import pytesseract; config = self.load_config();
\* tesseract_path = config.get("tesseract_path")
ConfigureLoad ==
  /\ tess.pc = "idle"
  /\ Len(tess.log) < MaxConfigure
  /\ IF ~tess.installed
     THEN \* except ImportError: return False
          tess' = [tess EXCEPT !.call = NoCall, !.log = Returned(NoCall, FALSE)]
     ELSE tess' = [tess EXCEPT !.pc = "loaded",
                               !.call = [NoCall EXCEPT !.loaded = LoadedPath(tess.file),
                                                       !.chosen = LoadedPath(tess.file)]]
  /\ UNCHANGED <<othervars, prep>>

\* if not tesseract_path: tesseract_path = self.find_tesseract_binary()
ConfigureFind ==
  /\ tess.pc = "loaded"
  /\ tess.call.chosen = ""
  /\ \E found \in Paths \cup {""} :
       LET call == [tess.call EXCEPT !.searched = TRUE, !.chosen = found]
       IN  IF found = ""
           THEN \* print("Tesseract binary not found"); return False
                tess' = [tess EXCEPT !.pc = "idle", !.call = call,
                                     !.log = Returned(call, FALSE)]
           ELSE tess' = [tess EXCEPT !.pc = "chosen", !.call = call]
  /\ UNCHANGED <<othervars, prep>>

\* the stored path is kept: no search
ConfigureKeep ==
  /\ tess.pc = "loaded"
  /\ tess.call.chosen # ""
  /\ tess' = [tess EXCEPT !.pc = "chosen"]
  /\ UNCHANGED <<othervars, prep>>

\* pytesseract.pytesseract.tesseract_cmd = tesseract_path;
\* config["tesseract_path"] = tesseract_path; self.save_config(config)
ConfigureSave ==
  /\ tess.pc = "chosen"
  /\ \E write \in Writes :
       tess' = [tess EXCEPT !.pc = "saved",
                            !.cmd = tess.call.chosen,
                            !.file = SaveConfig(@, tess.call.chosen, write),
                            !.call = [@ EXCEPT !.write = write]]
  /\ UNCHANGED <<othervars, prep>>

\* version = pytesseract.get_tesseract_version(): return True, or False
\* when it raises
ConfigureProbe ==
  /\ tess.pc = "saved"
  /\ \E works \in BOOLEAN :
       LET call == [tess.call EXCEPT !.probe = IF works THEN "ok" ELSE "failed"]
       IN  tess' = [tess EXCEPT !.pc = "idle", !.call = call,
                                !.log = Returned(call, works)]
  /\ UNCHANGED <<othervars, prep>>

NextConfigure ==
  \/ ConfigureLoad
  \/ ConfigureFind
  \/ ConfigureKeep
  \/ ConfigureSave
  \/ ConfigureProbe

SpecConfigure == InitConfigure /\ [][NextConfigure]_vars

\* ------------------------------------- the scorer and the detector, alone
\* word, sep, word, ..., word with n words
JoinRepeat(word, sep, n) ==
  IF n = 0 THEN <<>>
  ELSE LET unit == word \o sep
       IN [i \in 1..(n * Len(unit) - Len(sep)) |-> unit[((i - 1) % Len(unit)) + 1]]

\* the words the sample texts repeat
SampleWords ==
  {<<"t", "h", "e">>, <<"t", "h", "e", "s", "e">>, <<"T", "h", "a", "t">>,
   <<"e", "l">>, <<"<HA>", "<AI>">>, <<"<HA>", "<AI>", "<ANUSVARA>">>,
   <<"4", "2">>, <<"<NUL>">>}

\* what follows the repeated word in a sample text
SampleTails ==
  {<<>>, <<" ">>, <<"\n", "\n", "\n", "<NUL>">>,
   <<".", " ", "H", "e", "l", "l", "o", " ", "4", "2", " ", "o", "f">>,
   <<" ", "p", "o", "r", " ", "l", "a", " ", "<KA>", "<AA>">>,
   <<" ", "t", "h", "a", "t", "h", "a", "t">>}

\* "the" 1000 times, single spaces between
ThousandThe == JoinRepeat(<<"t", "h", "e">>, <<" ">>, 1000)

SampleTexts ==
  {JoinRepeat(word, <<" ">>, n) \o tail :
     word \in SampleWords, n \in 0..MaxRepeat, tail \in SampleTails}
  \cup {ThousandThe}

InitText ==
  /\ TESSERACT_AVAILABLE = TRUE
  /\ TESSERACT_CONFIGURED = TRUE
  /\ pc = "idle"
  /\ req = NoRequest
  /\ warnings = <<>>
  /\ doc_len = 0
  /\ pages_data = <<>>
  /\ page_i = 0
  /\ img_i = 0
  /\ page_text = <<>>
  /\ all_text = <<>>
  /\ all_chunks = <<>>
  /\ has_images = FALSE
  /\ extracted_languages = {}
  /\ search = IdleSearch
  /\ ocr_log = <<>>
  /\ recog_calls = 0
  /\ tried = <<>>
  /\ response = NoResponse
  /\ sample \in SampleTexts
  /\ scores = <<>>
  /\ detections = <<>>
  /\ attempt = NoAttempt
  /\ race = NoRace
  /\ prep = NoPrep
  /\ tess = NoTess

\* one call of calculate_quality_score_comprehensive(sample)
ScoreText ==
  /\ Len(scores) < MaxCalls
  /\ scores' = Append(scores, QualityScore(sample))
  /\ UNCHANGED <<startup, ghostvars, pc, req, warnings, pdfvars, ocrvars, tried,
                 response, sample, detections>>

\* the call of detect_languages_comprehensive(sample)
DetectText ==
  /\ detections = <<>>
  /\ detections' = Append(detections, DetectLanguages(sample))
  /\ UNCHANGED <<startup, ghostvars, pc, req, warnings, pdfvars, ocrvars, tried,
                 response, sample, scores>>

NextText ==
  \/ ScoreText
  \/ DetectText

SpecText == InitText /\ [][NextText]_vars

\* ------------------------------------------------------------ properties
\* process_pdf_comprehensive returned and extract_text built its OCRResponse
IsPdfResult ==
  /\ pc = "done"
  /\ req.file_type = "pdf"
  /\ response.kind = "result"
  /\ response.success

InUnit(c) == FracLe(<<0, 1>>, c) /\ FracLe(c, <<1, 1>>)

NonBlank(text) == \E i \in 1..Len(text) : ~IsSpace(text[i])

\* C1: every opened PDF gets exactly one page record per source page, numbered
\* 1..N in order, whichever pages raise while being decomposed, and the page
\* count of the result is N.
C1_OneRecordPerPage ==
  /\ Len(pages_data) <= doc_len
  /\ \A i \in 1..Len(pages_data) : pages_data[i].page_num = i
  /\ pc \in {"page", "images"} => Len(pages_data) = doc_len
  /\ IsPdfResult => Len(pages_data) = doc_len /\ response.pages = doc_len

\* A finished document in which a page raised and a later page held text.
C1_Witness ==
  /\ IsPdfResult
  /\ response.pages >= 2
  /\ \E i, j \in 1..Len(pages_data) :
       /\ i < j
       /\ pages_data[i].error
       /\ ~pages_data[j].error
       /\ pages_data[j].lines # <<>>

\* a may stand before b in a result
ChunkBefore(a, b) ==
  \/ a.page < b.page
  \/ /\ a.page = b.page
     /\ a.src.kind = "line"
     /\ b.src.kind = "image"
  \/ /\ a.page = b.page
     /\ a.src.kind = b.src.kind
     /\ a.src.pos < b.src.pos

InOrder(chunks) ==
  \A i, j \in 1..Len(chunks) : i < j => ChunkBefore(chunks[i], chunks[j])

\* C2: after every step of assembly, and in the result, chunks are in page
\* order, and within a page the native text chunks, in line order, stand
\* before the OCR chunks, in image-index order.
C2_ChunkOrder ==
  /\ InOrder(all_chunks)
  /\ InOrder(response.chunks)
  /\ IsPdfResult => response.chunks = all_chunks

\* A result with an OCR chunk of one page, then a text chunk of a later page.
C2_Witness ==
  /\ IsPdfResult
  /\ \E i, j \in 1..Len(response.chunks) :
       /\ i < j
       /\ response.chunks[i].src.kind = "image"
       /\ response.chunks[j].src.kind = "line"
       /\ response.chunks[j].page > response.chunks[i].page

\* the search of a standalone image has returned
SearchReturned == Len(ocr_log) = 1 /\ Len(tried) = NUM_CONFIGS

\* the configurations that yielded surviving tokens
Survivors == {k \in 1..Len(tried) : tried[k].survived}

\* k has the highest mean confidence, and is the earliest to have it
IsWinner(k) ==
  /\ k \in Survivors
  /\ \A j \in Survivors :
       /\ FracLe(tried[j].confidence, tried[k].confidence)
       /\ j < k => FracGt(tried[k].confidence, tried[j].confidence)

\* C3: when some configuration yields surviving tokens, the search returns
\* the text and confidence of the configuration with the highest mean
\* confidence, the earliest one among those sharing it.
C3_BestConfigWins ==
  (SearchReturned /\ Survivors # {}) =>
    \E k \in Survivors :
      /\ IsWinner(k)
      /\ ocr_log[1].result.text = tried[k].text
      /\ ocr_log[1].result.confidence = tried[k].confidence

\* C4: every result of the search has a confidence within [0,1], and it comes
\* from one of the five configurations, from the plain fallback, or from the
\* degraded placeholder.
C4_ConfidenceAndSource ==
  /\ InUnit(search.best.confidence)
  /\ search.best.config \in 0..NUM_CONFIGS
  /\ \A i \in 1..Len(ocr_log) :
       LET r == ocr_log[i].result
       IN /\ InUnit(r.confidence)
          /\ r.chunk_type = "ocr_text" =>
               /\ r.source \in {"config", "plain", "degraded"}
               /\ r.source = "config" =>
                    /\ r.best_config \in 1..NUM_CONFIGS
                    /\ r.text # <<>>
               /\ r.source = "plain" => r.confidence = <<1, 2>>
               /\ r.source = "degraded" => r.confidence = <<1, 10>>

\* A standalone search won by one of the five configurations at confidence 1.
C4_Witness ==
  /\ pc = "ocr_return"
  /\ ocr_log[Len(ocr_log)].result.source = "config"
  /\ ocr_log[Len(ocr_log)].result.confidence = <<1, 1>>

\* C5: the plain image_to_string call is made exactly when none of the five
\* configurations yielded a surviving token; its text is returned with
\* confidence 0.5, and when it raises the result is the diagnostic placeholder
\* with confidence 0.1.
C5_FallbackIffNoSurvivor ==
  SearchReturned =>
    /\ (recog_calls > NUM_CONFIGS) <=> (Survivors = {})
    /\ ocr_log[1].result.source = "plain" =>
         ocr_log[1].result.confidence = <<1, 2>>
    /\ ocr_log[1].result.source = "degraded" =>
         /\ ocr_log[1].result.text = FailedText(1)
         /\ ocr_log[1].result.confidence = <<1, 10>>

OnPage(chunks, page_num) == SelectSeq(chunks, LAMBDA c : c.page = page_num)

OcrChunksOn(chunks, page_num) ==
  SelectSeq(chunks, LAMBDA c : c.page = page_num /\ c.chunk_type # "text")

\* a non-error page whose record holds one image and no text
ImageOnlyPage(page_data) ==
  /\ ~page_data.error
  /\ Len(page_data.images) = 1
  /\ \A j \in 1..Len(page_data.lines) : ~NonBlank(page_data.lines[j])

C7_PlaceholderWhenCheckFails ==
  (pc = "done" /\ req.file_type = "pdf" /\ page_i >= 1 /\ warnings # <<>>) =>
    /\ response.success
    /\ response.warnings = warnings
    /\ \A i \in 1..Len(ocr_log) :
         /\ ocr_log[i].result.chunk_type = "ocr_unavailable"
         /\ ocr_log[i].result.confidence = <<0, 1>>

\* the searches made for the images of a page, in the order made
SearchesOn(page_num) == SelectSeq(ocr_log, LAMBDA e : e.page = page_num)

Shown(chunks) ==
  [i \in 1..Len(chunks) |->
     <<chunks[i].text, chunks[i].confidence, chunks[i].chunk_type>>]

ShownResults(entries) ==
  [i \in 1..Len(entries) |->
     <<entries[i].result.text, entries[i].result.confidence,
       entries[i].result.chunk_type>>]

\* C8 as stated: when images are extracted, every page has as many OCR chunks
\* as its record has images, whatever the recognised text is.
C8_OneChunkPerImage ==
  (IsPdfResult /\ req.extract_images) =>
    \A i \in 1..Len(pages_data) :
      Len(OcrChunksOn(response.chunks, i)) = Len(pages_data[i].images)

\* C8: when images are extracted, every image of every page is searched once,
\* in index order, and the OCR chunks of the page are, in that order, the
\* text, confidence and chunk type of the searches whose text is not blank;
\* an image whose winning text is blank gives no chunk.
C8_OneChunkPerNonBlankResult ==
  (IsPdfResult /\ req.extract_images) =>
    \A i \in 1..Len(pages_data) :
      /\ [k \in 1..Len(SearchesOn(i)) |-> SearchesOn(i)[k].index]
           = pages_data[i].images
      /\ Shown(OcrChunksOn(response.chunks, i))
           = ShownResults(SelectSeq(SearchesOn(i),
                                    LAMBDA e : NonBlank(e.result.text)))

\* A page with two images, one recognised as blank and one as text.
C8_Witness ==
  /\ IsPdfResult
  /\ req.extract_images
  /\ \E i \in 1..Len(pages_data) :
       /\ Len(pages_data[i].images) = 2
       /\ Len(OcrChunksOn(response.chunks, i)) = 1
       /\ \E k \in 1..Len(SearchesOn(i)) : SearchesOn(i)[k].result.text = <<>>

\* the separator written after a line
Sep == IF req.preserve_layout THEN <<"\n">> ELSE <<" ">>

\* what the non-blank lines of a page add to its text
RECURSIVE LinesText(_)
LinesText(lines) ==
  IF lines = <<>> THEN <<>>
  ELSE (IF NonBlank(Head(lines)) THEN Head(lines) \o Sep ELSE <<>>)
       \o LinesText(Tail(lines))

\* what the searches of a page add to its text
RECURSIVE ImagesText(_)
ImagesText(entries) ==
  IF entries = <<>> THEN <<>>
  ELSE (IF NonBlank(Head(entries).result.text)
        THEN IF req.preserve_layout
             THEN <<"\n">> \o Head(entries).result.text \o <<"\n">>
             ELSE Head(entries).result.text \o <<" ">>
        ELSE <<>>)
       \o ImagesText(Tail(entries))

Header(n) == <<"\n", "---", " ", "PAGE", " ", ToString(n), " ", "---", "\n">>

\* header, page text and newline, for every page or for the pages that did
\* not raise
RECURSIVE Sections(_, _)
Sections(pages, with_errors) ==
  IF pages = <<>> THEN <<>>
  ELSE (IF Head(pages).error /\ ~with_errors THEN <<>>
        ELSE Header(Head(pages).page_num)
             \o LinesText(Head(pages).lines)
             \o ImagesText(SearchesOn(Head(pages).page_num))
             \o <<"\n">>)
       \o Sections(Tail(pages), with_errors)

\* the page numbers of the headers found in a text, in the order found
RECURSIVE HeadersFrom(_, _)
HeadersFrom(text, i) ==
  IF i + 8 > Len(text) THEN <<>>
  ELSE (IF /\ SubSeq(text, i, i + 4) = <<"\n", "---", " ", "PAGE", " ">>
           /\ SubSeq(text, i + 6, i + 8) = <<" ", "---", "\n">>
        THEN <<text[i + 5]>> ELSE <<>>)
       \o HeadersFrom(text, i + 1)

\* the text chunks the non-blank lines of a page give
RECURSIVE LineChunks(_, _)
LineChunks(lines, page_num) ==
  IF lines = <<>> THEN <<>>
  ELSE (IF NonBlank(Head(lines))
        THEN <<[text |-> Strip(Head(lines)), confidence |-> <<19, 20>>,
                page |-> page_num, chunk_type |-> "text"]>>
        ELSE <<>>)
       \o LineChunks(Tail(lines), page_num)

RECURSIVE DocLineChunks(_)
DocLineChunks(pages) ==
  IF pages = <<>> THEN <<>>
  ELSE LineChunks(Head(pages).lines, Head(pages).page_num)
       \o DocLineChunks(Tail(pages))

NoImages == \A i \in 1..Len(pages_data) : pages_data[i].images = <<>>

TwoLinePage ==
  pages_data = <<[page_num |-> 1, lines |-> <<WordsLine(1), WordsLine(2)>>,
                  images |-> <<>>, error |-> FALSE]>>

\* C9: the result of a PDF without embedded images has exactly one chunk per
\* non-blank native line, of type text and confidence 0.95, in native order,
\* and its full text holds every such line under the header of its page; one
\* page with two lines gives 2 text chunks and both lines under one header.
C9_OneChunkPerLine ==
  (IsPdfResult /\ NoImages) =>
    /\ [i \in 1..Len(response.chunks) |->
          [text |-> response.chunks[i].text,
           confidence |-> response.chunks[i].confidence,
           page |-> response.chunks[i].page,
           chunk_type |-> response.chunks[i].chunk_type]]
         = DocLineChunks(pages_data)
    /\ response.text = Sections(pages_data, FALSE)
    /\ TwoLinePage =>
         /\ Len(response.chunks) = 2
         /\ HeadersFrom(response.text, 1) = <<"1">>
         /\ response.text = Header(1) \o WordsLine(1) \o Sep
                             \o WordsLine(2) \o Sep \o <<"\n">>

\* The result of one page with two native lines and no image.
C9_Witness == IsPdfResult /\ TwoLinePage

\* C10 as stated: the full text has one header for every page 1..pages, in
\* increasing order, each followed by the page's text, pages with an error
\* marker included.
C10_HeaderForEveryPage ==
  IsPdfResult =>
    /\ HeadersFrom(response.text, 1) = [n \in 1..response.pages |-> ToString(n)]
    /\ response.text = Sections(pages_data, TRUE)

\* C10: the full text is, for the pages without an error marker in increasing
\* order, the header of the page followed by the page's text; a page with an
\* error marker has no header.
C10_HeaderForEveryGoodPage ==
  IsPdfResult =>
    /\ HeadersFrom(response.text, 1)
         = [k \in 1..Len(SelectSeq(pages_data, LAMBDA p : ~p.error)) |->
              ToString(SelectSeq(pages_data, LAMBDA p : ~p.error)[k].page_num)]
    /\ response.text = Sections(pages_data, FALSE)

\* A result with a page that raised between two pages that did not.
C10_Witness ==
  /\ IsPdfResult
  /\ response.pages = 3
  /\ pages_data[2].error
  /\ pages_data[1].lines # <<>>

\* extract_text returned a successful Document Result, on either path
IsSuccess ==
  /\ pc = "done"
  /\ response.kind = "result"
  /\ response.success

\* C11: in every successful result, of a PDF or of a standalone image, the
\* word count is the number of whitespace-delimited tokens of the result's
\* text, the character count is its length, the quality score is the Quality
\* Scorer's value for it and the language is the first element of the Language
\* Detector's output for it; a PDF's result is built only after the last page
\* was assembled, from the text assembled from all pages.
C11_MetricsOfFinalText ==
  /\ IsSuccess =>
       LET chars == Characters(response.text)
       IN /\ response.word_count = SplitLen(chars)
          /\ response.character_count = Len(chars)
          /\ response.quality_score = QualityScore(chars)
          /\ response.language = Head(DetectLanguages(chars))
  /\ IsPdfResult =>
       /\ page_i > Len(pages_data)
       /\ response.text = all_text

\* A two-page result whose text holds recognised image text after a header.
C11_Witness ==
  /\ IsPdfResult
  /\ response.pages = 2
  /\ \E k \in 1..Len(response.chunks) : response.chunks[k].src.kind = "image"
  /\ response.word_count > 8
  /\ response.character_count > response.word_count
  /\ FracGt(response.quality_score, <<1, 2>>)

\* the function-word occurrence count of a language in a lower-cased text:
\* the sum, over the language's words, of the word's occurrences
FunctionWordCount(text_lower, language) ==
  SumCounts(text_lower, CASE language = "en" -> ENGLISH_WORDS
                          [] language = "hi" -> HINDI_WORDS
                          [] language = "es" -> SPANISH_WORDS)

Threshold(language) ==
  CASE language = "en" -> ENGLISH_THRESHOLD
    [] language = "hi" -> HINDI_THRESHOLD
    [] language = "es" -> SPANISH_THRESHOLD

\* C12: for every text, the Language Detector returns the sub-list of
\* [en, hi, es], in that order, of the languages whose function-word
\* occurrence count strictly exceeds the language's threshold (15, 5, 10), and
\* exactly [unknown] when none does; the result is never empty and a count
\* equal to the threshold does not qualify.
C12_DetectorOutput ==
  detections # <<>> =>
    LET text_lower == LowerText(sample)
        count == [l \in {"en", "hi", "es"} |-> FunctionWordCount(text_lower, l)]
        qualifying == SelectSeq(<<"en", "hi", "es">>,
                                LAMBDA l : count[l] > Threshold(l))
    IN \A k \in 1..Len(detections) :
         /\ detections[k] # <<>>
         /\ detections[k] = IF qualifying = <<>> THEN <<"unknown">>
                            ELSE qualifying
         /\ \A l \in {"en", "hi", "es"} :
              count[l] = Threshold(l) =>
                \A n \in 1..Len(detections[k]) : detections[k][n] # l

\* The detector has returned two languages for a text in which the third
\* has occurrences too.
C12_Witness ==
  /\ detections # <<>>
  /\ detections[1] = <<"en", "es">>
  /\ FunctionWordCount(LowerText(sample), "hi") > 0

\* the languages of the extracted languages field, as a set
ExtractedSet == {response.extracted_languages[n] :
                   n \in 1..Len(response.extracted_languages)}

\* the language tags of the OCR-derived chunks of a chunk sequence
OcrLanguageTags(chunks) ==
  {chunks[k].language : k \in {n \in 1..Len(chunks) : chunks[n].src.kind = "image"}}

\* the first of en, hi, es whose count exceeds its threshold in a text
FirstQualifying(chars) ==
  LET text_lower == LowerText(chars)
  IN IF EnglishCount(text_lower) > ENGLISH_THRESHOLD THEN "en"
     ELSE IF HindiCount(text_lower) > HINDI_THRESHOLD THEN "hi"
     ELSE IF SpanishCount(text_lower) > SPANISH_THRESHOLD THEN "es"
     ELSE "unknown"

\* the languages the Language Detector finds qualifying in a text
DetectedSet(chars) ==
  LET detected == DetectLanguages(chars)
  IN {detected[n] : n \in 1..Len(detected)} \ {"unknown"}

\* C13 as stated: in every successful result the dominant language is the
\* first language qualifying in the order English, Hindi, Spanish, and the
\* extracted languages are the full set of languages that qualified in the
\* Language Detector for the document's text.
C13_ExtractedAreDetected ==
  IsSuccess =>
    /\ response.language = FirstQualifying(Characters(response.text))
    /\ ExtractedSet = DetectedSet(Characters(response.text))

\* C13, amended: in every successful result the dominant language is the
\* first language qualifying in the order English, Hindi, Spanish for the
\* result's text, or unknown when none qualifies, and the extracted languages
\* are the recognition language tags of the result's OCR-derived chunks,
\* whatever the Language Detector finds in the text.
C13_DominantAndExtracted ==
  IsSuccess =>
    /\ response.language = FirstQualifying(Characters(response.text))
    /\ ExtractedSet = OcrLanguageTags(response.chunks)

\* A result whose text qualifies as Spanish while its extracted languages
\* hold only the tag of an image that was not recognised.
C13_Witness ==
  /\ IsSuccess
  /\ response.language = "es"
  /\ response.extracted_languages = <<"unknown">>

\* C14: in every successful PDF result the extracted languages are the union
\* of the language tags of the OCR-derived chunks of the result: a tag is in
\* the set if and only if some OCR chunk of the chunk sequence carries it, and
\* the set is empty when the result has no OCR chunk. The set is that union
\* all through the assembly.
C14_ExtractedLanguagesUnion ==
  /\ IsPdfResult =>
       /\ \A tag \in ExtractedSet \cup OcrLanguageTags(response.chunks) :
            tag \in ExtractedSet
              <=> \E k \in 1..Len(response.chunks) :
                    /\ response.chunks[k].src.kind = "image"
                    /\ response.chunks[k].language = tag
       /\ (\A k \in 1..Len(response.chunks) : response.chunks[k].src.kind # "image")
            => response.extracted_languages = <<>>
  /\ req.file_type = "pdf" => extracted_languages = OcrLanguageTags(all_chunks)

\* A PDF result with OCR chunks of two different language tags.
C14_Witness ==
  /\ IsPdfResult
  /\ Cardinality(ExtractedSet) = 2
  /\ \E k \in 1..Len(response.chunks) : response.chunks[k].src.kind = "line"

\* C15: for every input string the Quality Scorer returns a value in [0,1],
\* the same value on every call for the same string, and exactly 0 for the
\* empty string and for every string whose trimmed length is below 5.
C15_ScoreInUnitInterval ==
  \A k \in 1..Len(scores) :
    /\ InUnit(scores[k])
    /\ scores[k] = scores[1]
    /\ (sample = <<>> \/ StrippedLen(sample) < 5) => scores[k] = <<0, 1>>

\* The scorer was called twice on a text of letters whose trimmed length is
\* below 5.
C15_Witness ==
  /\ Len(scores) = 2
  /\ sample # <<>>
  /\ StrippedLen(sample) > 0
  /\ StrippedLen(sample) < 5
  /\ \A i \in 1..Len(sample) : IsAlnum(sample[i]) \/ IsSpaceChar(sample[i])
  /\ scores = <<<<0, 1>>, <<0, 1>>>>

\* C16 as stated: for the text of 1000 "the" tokens separated by single
\* spaces, the Language Detector reports en and the Quality Scorer applies the
\* whitespace penalty, the ratio of separator spaces to all characters being
\* above 0.3.
C16_ThousandThePenalised ==
  sample = ThousandThe =>
    /\ detections # <<>> => detections[1] = <<"en">>
    /\ scores # <<>> =>
         /\ FracGt(WhitespaceRatio(sample), <<3, 10>>)
         /\ scores[1] = FracAdd(<<4, 5>>, <<-1, 10>>)

\* C16, amended: for the text of 1000 "the" tokens separated by single
\* spaces, the Language Detector reports exactly en, and the Quality Scorer
\* applies no whitespace penalty: 999 of the 3999 characters are spaces, a
\* ratio below 0.3, and the score is 0.3 + 0.4 + 0.1 = 0.8.
C16_ThousandTheNotPenalised ==
  sample = ThousandThe =>
    /\ Len(sample) = 3999
    /\ WhitespaceRatio(sample) = Frac(999, 3999)
    /\ ~FracGt(WhitespaceRatio(sample), <<3, 10>>)
    /\ detections # <<>> => detections[1] = <<"en">>
    /\ scores # <<>> => scores[1] = <<4, 5>>

\* The scorer and the detector have both returned for the 1000-token text.
C16_Witness ==
  /\ sample = ThousandThe
  /\ scores # <<>>
  /\ detections # <<>>

\* the request is one the input checks are to turn away
Invalid ==
  \/ req.size = "empty"
  \/ req.size = "big"
  \/ req.file_type \notin {"pdf", "image"}

\* C17: a request whose body is empty, whose body exceeds the size ceiling, or
\* whose declared media type is neither pdf nor image, the absent media type
\* included, is rejected to the caller with its specific reason and not
\* returned as a failed Document Result, and no decomposition, preprocessing
\* or recognition step runs for it.
C17_InvalidRequestsRejected ==
  (pc = "done" /\ Invalid) =>
    /\ response.kind = "http_error"
    /\ response.error = (IF req.size = "empty" THEN "Empty file"
                         ELSE IF req.size = "big" THEN "File too large"
                         ELSE "Unsupported file type")
    /\ pages_data = <<>>
    /\ ocr_log = <<>>
    /\ recog_calls = 0

\* C18: for a PDF with more pages than the page-count ceiling the rejection
\* happens before decomposition begins: no page is decomposed and no embedded
\* image is extracted or recognised before the "Too many pages" rejection is
\* raised.
C18_RejectedBeforeDecomposition ==
  doc_len > MAX_PAGES_PER_REQUEST =>
    /\ pages_data = <<>>
    /\ ocr_log = <<>>
    /\ recog_calls = 0

\* the reasons of the input rejections
RejectionReasons ==
  {"Empty file", "File too large", "Unsupported file type", "Too many pages"}

\* C19: whatever ends a request other than an input rejection or a successful
\* result is a failed Document Result: success is false, the text and the
\* chunk sequence are empty, the error message is the captured one, the
\* warnings are all those accumulated before the failure, and the processing
\* time is not negative.
C19_FailedResult ==
  pc = "done" =>
    \/ /\ response.kind = "http_error"
       /\ response.error \in RejectionReasons
    \/ IsSuccess
    \/ /\ response.kind = "result"
       /\ ~response.success
       /\ response.text = <<>>
       /\ response.chunks = <<>>
       /\ response.error \in {"AttributeError", "cannot open document"}
       /\ response.warnings = warnings
       /\ ~TESSERACT_AVAILABLE => response.warnings # <<>>
       /\ response.processing_time >= 0

\* A PDF that cannot be opened, after the Tesseract warning was recorded.
C19_Witness ==
  /\ pc = "done"
  /\ req.file_type = "pdf"
  /\ response.kind = "result"
  /\ ~response.success
  /\ response.error = "cannot open document"
  /\ response.warnings # <<>>
  /\ response.processing_time > 0

\* the native text chunks of a page, as text, confidence, page and type
TextChunksOn(chunks, page_num) ==
  LET found == SelectSeq(chunks, LAMBDA c : c.page = page_num /\ c.chunk_type = "text")
  IN [k \in 1..Len(found) |->
        [text |-> found[k].text, confidence |-> found[k].confidence,
         page |-> found[k].page, chunk_type |-> found[k].chunk_type]]

\* the search of an image failed: every recognition call raised, or the
\* image could not be read
SearchFailed(entry) == entry.result.source \in {"degraded", "error"}

\* C20: a failure while extracting or recognising one embedded image never
\* aborts its page. An image that could not be extracted is left out of the
\* page record and the images after it are kept; an image whose recognition
\* failed gives a chunk with a diagnostic text and confidence 0.1; the native
\* text chunks of the page and the chunks of its other images are what they
\* are without the failure, and every image of the record and every page of
\* the document is still processed.
C20_ImageFailureIsLocal ==
  /\ \A i \in 1..Len(pages_data) :
       \A k \in 1..Len(pages_data[i].images) :
         /\ pages_data[i].images[k] >= k - 1
         /\ k > 1 => pages_data[i].images[k] > pages_data[i].images[k - 1]
  /\ IsPdfResult =>
       /\ response.pages = doc_len
       /\ page_i > Len(pages_data)
       /\ \A i \in 1..Len(pages_data) :
            /\ TextChunksOn(response.chunks, i) = LineChunks(pages_data[i].lines, i)
            /\ req.extract_images =>
                 /\ [k \in 1..Len(SearchesOn(i)) |-> SearchesOn(i)[k].index]
                      = pages_data[i].images
                 /\ \A k \in 1..Len(SearchesOn(i)) :
                      LET entry == SearchesOn(i)[k]
                      IN /\ SearchFailed(entry) =>
                              /\ NonBlank(entry.result.text)
                              /\ entry.result.confidence = <<1, 10>>
                         /\ NonBlank(entry.result.text) =>
                              \E n \in 1..Len(response.chunks) :
                                /\ response.chunks[n].src = [kind |-> "image",
                                                             pos |-> entry.index]
                                /\ response.chunks[n].page = i
                                /\ response.chunks[n].text = entry.result.text
                                /\ response.chunks[n].confidence = entry.result.confidence

\* A page whose first image could not be extracted, whose second image
\* failed in recognition and whose third image was recognised.
C20_Witness ==
  /\ IsPdfResult
  /\ req.extract_images
  /\ Len(pages_data) = 1
  /\ pages_data[1].images = <<1, 2>>
  /\ Len(SearchesOn(1)) = 2
  /\ SearchFailed(SearchesOn(1)[1])
  /\ SearchesOn(1)[2].result.source = "config"
  /\ Len(OcrChunksOn(response.chunks, 1)) = 2

\* the language tags of the OCR-derived chunks, in the order of their first
\* chunk
RECURSIVE TagsInOrder(_, _)
TagsInOrder(chunks, seen) ==
  IF chunks = <<>> THEN <<>>
  ELSE IF Head(chunks).src.kind = "image" /\ Head(chunks).language \notin seen
  THEN <<Head(chunks).language>>
       \o TagsInOrder(Tail(chunks), seen \cup {Head(chunks).language})
  ELSE TagsInOrder(Tail(chunks), seen)

\* C21: two runs on the same input with the same options and the same engine
\* outcomes give results equal in every field but the processing time: every
\* field of a successful result is a function of the request and of what the
\* decomposer and the engine gave, the extracted languages list, content and
\* order, included; the list is, run after run, the tags in the order of
\* their first chunk.
C21_SameInputSameResult ==
  IsSuccess =>
    /\ response.chunks = (IF req.file_type = "pdf" THEN all_chunks
                          ELSE <<OcrChunk(ocr_log[1].result, 1, 0)>>)
    /\ response.text = (IF req.file_type = "pdf" THEN all_text
                        ELSE ocr_log[1].result.text)
    /\ response.warnings = warnings
    /\ response.language = FirstQualifying(Characters(response.text))
    /\ response.extracted_languages = TagsInOrder(response.chunks, {})

\* the chunk has a confidence below the request's confidence_threshold
BelowThreshold(chunk) == FracGt(req.confidence_threshold, chunk.confidence)

\* C22: the confidence_threshold option is inert. The chunk sequence, the
\* full text and the metrics of a successful result are those the pages, the
\* lines and the searches give, the same for every confidence_threshold: every
\* non-blank line and every non-blank search result has its chunk whatever
\* its confidence is, and no other chunk exists.
C22_ThresholdInert ==
  /\ IsPdfResult =>
       /\ \A i \in 1..Len(pages_data) :
            /\ TextChunksOn(response.chunks, i) = LineChunks(pages_data[i].lines, i)
            /\ Shown(OcrChunksOn(response.chunks, i))
                 = ShownResults(SelectSeq(SearchesOn(i),
                                          LAMBDA e : NonBlank(e.result.text)))
       /\ response.text = Sections(pages_data, FALSE)
  /\ (IsSuccess /\ req.file_type = "image") =>
       /\ Shown(response.chunks) = ShownResults(ocr_log)
       /\ response.text = ocr_log[1].result.text
  /\ IsSuccess =>
       /\ response.word_count = DocumentMetrics(response.text).word_count
       /\ response.character_count = DocumentMetrics(response.text).character_count
       /\ response.quality_score = DocumentMetrics(response.text).quality_score

\* A result, for a request with confidence_threshold 1.0, holding an OCR chunk
\* below the threshold, a text chunk below it and an OCR chunk at it.
C22_Witness ==
  /\ IsPdfResult
  /\ req.confidence_threshold = <<1, 1>>
  /\ \E i, j, k \in 1..Len(response.chunks) :
       /\ response.chunks[i].chunk_type = "text"
       /\ BelowThreshold(response.chunks[i])
       /\ response.chunks[j].chunk_type # "text"
       /\ BelowThreshold(response.chunks[j])
       /\ response.chunks[k].chunk_type # "text"
       /\ ~BelowThreshold(response.chunks[k])

\* the rows of the last attempt and the positions of the rows kept
AttemptRows == attempt.outcome.tokens

KeptRows == {i \in 1..Len(AttemptRows) : AttemptRows[i].conf > 30}

\* the texts of the kept rows in engine order, joined by single spaces
RECURSIVE JoinedFrom(_)
JoinedFrom(i) ==
  IF i > Len(AttemptRows) THEN <<>>
  ELSE IF i \notin KeptRows THEN JoinedFrom(i + 1)
  ELSE IF \E j \in KeptRows : j > i
       THEN AttemptRows[i].text \o <<" ">> \o JoinedFrom(i + 1)
       ELSE AttemptRows[i].text

\* the sum of the confidences of the kept rows
RECURSIVE KeptSumFrom(_)
KeptSumFrom(i) ==
  IF i > Len(AttemptRows) THEN 0
  ELSE (IF i \in KeptRows THEN AttemptRows[i].conf ELSE 0) + KeptSumFrom(i + 1)

\* the attempt left the best so far as it was
NoCandidate == search.best = attempt.before

\* the best after the attempt, for a candidate of the given text: the
\* candidate when its confidence, the mean of the kept confidences over 100,
\* is above the best so far, and else the best so far
BestAfter(text) ==
  IF KeptSumFrom(1) * attempt.before.confidence[2]
       > attempt.before.confidence[1] * 100 * Cardinality(KeptRows)
  THEN /\ search.best.text = text
       /\ search.best.confidence[1] * 100 * Cardinality(KeptRows)
            = search.best.confidence[2] * KeptSumFrom(1)
       /\ search.best.config = search.k - 1
  ELSE NoCandidate

\* C23 as stated: an attempt keeps exactly the rows with confidence above 30,
\* its text is the kept rows joined by single spaces, its confidence is their
\* mean over 100, and an attempt without kept rows gives no candidate.
C23_JoinedText ==
  attempt.made =>
    IF attempt.outcome.fail \/ KeptRows = {} THEN NoCandidate
    ELSE BestAfter(JoinedFrom(1))

\* C23, amended: an attempt keeps exactly the rows with confidence above 30
\* (a row at 30 is dropped); its text is the kept rows in engine order joined
\* by single spaces and then stripped of leading and trailing whitespace; its
\* confidence is the mean of the kept confidences over 100; an attempt that
\* raised or kept no row gives no candidate.
C23_JoinedAndStrippedText ==
  attempt.made =>
    IF attempt.outcome.fail \/ KeptRows = {} THEN NoCandidate
    ELSE BestAfter(Strip(JoinedFrom(1)))

\* The first attempt kept a whitespace row and a word row.
C23_Witness ==
  /\ attempt.made
  /\ attempt.before = InitBest
  /\ AttemptRows = <<Tok(<<" ">>, 100), Tok(<<"x">>, MIN_TOKEN_CONF + 1)>>
  /\ search.best.text = <<"x">>
  /\ search.best.confidence = <<131, 200>>

\* every configuration of the race was evaluated
RaceOver == race.cfgs # <<>> /\ race.pending = {}

\* what the fixed order 1, 2, 3, 4, 5 gives for the race's outcomes
Sequential == SearchLoop(InitBest, 1, race.cfgs)

\* the configurations whose candidate has the greatest confidence
Candidates == [k \in 1..NUM_CONFIGS |-> Candidate(race.cfgs[k])]

Greatest ==
  LET cand == Candidates
  IN  {k \in 1..NUM_CONFIGS :
         /\ cand[k].survived
         /\ \A j \in 1..NUM_CONFIGS :
              cand[j].survived => FracLe(cand[j].confidence, cand[k].confidence)}

\* C24 as stated: whatever the order in which the five configurations are
\* evaluated, with "best" replaced only on a strictly greater confidence, the
\* winner has the text and the confidence the fixed order gives.
C24_AnyOrderSameWinner ==
  RaceOver =>
    /\ race.best.text = Sequential.text
    /\ race.best.confidence = Sequential.confidence

\* C24, amended: whatever the order of evaluation, the winning confidence is
\* the one the fixed order gives, the greatest of the candidates'; the winner
\* is the configuration of greatest confidence evaluated first, which in the
\* fixed order is the one of lowest index; the winning text is that of the
\* fixed order when the configurations of greatest confidence have the same
\* text, and may differ when they tie with different texts.
C24_AnyOrderSameConfidence ==
  RaceOver =>
    LET fixed == Sequential
        cand == Candidates
        greatest == Greatest
    IN  /\ race.best.confidence = fixed.confidence
        /\ greatest = {} => race.best = InitBest /\ fixed = InitBest
        /\ greatest # {} =>
             /\ race.best.config \in greatest
             /\ \A n \in 1..Len(race.order) :
                  race.order[n] \in greatest =>
                    \E m \in 1..n : race.order[m] = race.best.config
             /\ fixed.config \in greatest
             /\ \A k \in greatest : fixed.config <= k
             /\ race.best.text = cand[race.best.config].text
        /\ (\A j, k \in greatest : cand[j].text = cand[k].text)
             => race.best.text = fixed.text

\* Configurations 2 and 4 tie at confidence 1.0 with different texts, 4 was
\* evaluated first and its text won.
C24_Witness ==
  /\ RaceOver
  /\ Greatest = {2, 4}
  /\ race.best.config = 4
  /\ race.best.confidence = <<1, 1>>
  /\ Sequential.config = 2
  /\ race.best.text # Sequential.text

\* the result the step appended to the log
Logged == ocr_log'[Len(ocr_log')].result

\* C25: no step of the search is retried.  On a standalone image every pass
\* of the loop is one recognition call for the next configuration, 1 to 5,
\* whatever the call gave, and the best never gets worse; the plain
\* recognition is called at most once, on leaving the loop after the fifth
\* configuration, when no best text exists; the unavailable and the error
\* result come without any call, and once a result is returned no call
\* follows.  On an image of a PDF the whole search makes five calls, or six
\* with the fallback, and none for the unavailable and the error result.
C25_NoStepRetried ==
  [][/\ (pc = "ocr_loop" /\ pc' = "ocr_loop") =>
          /\ search.k \in 1..NUM_CONFIGS
          /\ search'.k = search.k + 1
          /\ recog_calls' = recog_calls + 1
          /\ FracLe(search.best.confidence, search'.best.confidence)
     /\ (pc = "ocr_loop" /\ pc' # "ocr_loop") =>
          /\ search.k = NUM_CONFIGS + 1
          /\ search' = search
          /\ pc' = "ocr_return"
          /\ recog_calls' = recog_calls + (IF search.best.text = <<>> THEN 1 ELSE 0)
          /\ Len(ocr_log') = 1
          /\ Logged.source \in {"config", "plain", "degraded"}
          /\ Logged.source = "config" <=> search.best.text # <<>>
     /\ pc = "ocr_start" =>
          /\ recog_calls' = recog_calls
          /\ pc' = "ocr_return" =>
               Len(ocr_log') = 1 /\ Logged.source \in {"unavailable", "error"}
     /\ pc \in {"ocr_return", "done"} =>
          recog_calls' = recog_calls /\ ocr_log' = ocr_log
     /\ pc = "images" =>
          /\ Len(ocr_log') = Len(ocr_log) + 1
          /\ Logged.source \in {"unavailable", "error"} =>
               recog_calls' = recog_calls
          /\ Logged.source = "config" =>
               recog_calls' = recog_calls + NUM_CONFIGS
          /\ Logged.source \in {"plain", "degraded"} =>
               recog_calls' = recog_calls + NUM_CONFIGS + 1
    ]_vars

\* A standalone image on which all five configurations and the plain
\* recognition were called, once each, and the degraded result returned.
C25_Witness ==
  /\ req.file_type = "image"
  /\ pc = "ocr_return"
  /\ search.k = NUM_CONFIGS + 1
  /\ recog_calls = NUM_CONFIGS + 1
  /\ Len(ocr_log) = 1
  /\ ocr_log[1].result.source = "degraded"

\* preprocess_image_for_ocr returned
Preprocessed == prep.input # NoImage /\ prep.step = 0

\* C26 as stated: the preprocessor returns an image whatever step raises,
\* and when step k raises the returned image is the input after steps
\* 1..k-1, every step that succeeded before the failure being kept.
C26_FailureKeepsEarlierSteps ==
  Preprocessed =>
    /\ prep.returned # NoImage
    /\ prep.fail_at = 0 =>
         prep.returned = StepsThrough(Len(PreprocessSteps), prep.input)
    /\ prep.fail_at # 0 =>
         prep.returned = StepsThrough(prep.fail_at - 1, prep.input)

\* What the code does: the image returned on a failure is the input after
\* steps 1 and 2 at most, whatever later steps succeeded.
C26_FailureKeepsRgbAndResizeOnly ==
  Preprocessed =>
    /\ prep.returned # NoImage
    /\ prep.fail_at = 0 =>
         prep.returned = StepsThrough(Len(PreprocessSteps), prep.input)
    /\ prep.fail_at # 0 =>
         LET kept == IF prep.fail_at - 1 < 2 THEN prep.fail_at - 1 ELSE 2
         IN  prep.returned = StepsThrough(kept, prep.input)

\* The threshold raised on a small RGBA image after the grayscale and the
\* denoise succeeded, and the image returned has neither.
C26_Lost ==
  /\ Preprocessed
  /\ prep.fail_at = 5
  /\ prep.input.mode = "RGBA"
  /\ prep.input.small
  /\ prep.work.applied = <<"convert", "resize", "gray", "median">>
  /\ prep.returned.applied = <<"convert", "resize">>

\* a confidence in (0.3, 1.0]
Scored(c) == FracGt(c, Frac(MIN_TOKEN_CONF, 100)) /\ FracLe(c, <<1, 1>>)

\* C27: every scored attempt has a confidence above 0.3 and at most 1.0; a
\* returned confidence is 0.0 (unavailable), 0.1 (diagnostic placeholder),
\* 0.5 (plain fallback) or the scored value of the winning configuration,
\* and a returned confidence of 0.3 or less is that of an unavailable or a
\* failed recognition.
C27_ConfidenceRanges ==
  /\ search.best.config # 0 => Scored(search.best.confidence)
  /\ search.best.config = 0 => search.best.confidence = <<0, 1>>
  /\ \A n \in 1..Len(ocr_log) :
       LET result == ocr_log[n].result
       IN  /\ result.source = "unavailable" <=> result.confidence = Frac(0, 100)
           /\ result.source \in {"degraded", "error"} <=>
                result.confidence = Frac(10, 100)
           /\ result.source = "plain" => result.confidence = Frac(50, 100)
           /\ result.source = "config" => Scored(result.confidence)
           /\ FracLe(result.confidence, Frac(MIN_TOKEN_CONF, 100)) =>
                result.source \in {"unavailable", "degraded", "error"}

\* A standalone image whose only kept token has confidence 31: the search
\* returned a scored attempt of confidence 0.31.
C27_Witness ==
  /\ req.file_type = "image"
  /\ pc = "ocr_return"
  /\ search.best.config # 0
  /\ ocr_log[1].result.source = "config"
  /\ ocr_log[1].result.confidence = Frac(MIN_TOKEN_CONF + 1, 100)

\* C28: the chunk type of a search result tells where the failure was.
\* ocr_unavailable is the type exactly when the capability was unavailable
\* at startup; ocr_error is the type exactly when the image could not be
\* loaded, before the configuration loop and without any recognition call;
\* every other result is ocr_text, the placeholder of confidence 0.1 given
\* after all five configurations and the plain fallback failed included.
C28_ChunkTypeByFailure ==
  /\ \A n \in 1..Len(ocr_log) :
       LET result == ocr_log[n].result
       IN  /\ result.chunk_type \in {"ocr_unavailable", "ocr_error", "ocr_text"}
           /\ result.chunk_type = "ocr_unavailable" <=> ~TESSERACT_AVAILABLE
           /\ result.chunk_type = "ocr_error" <=> result.source = "error"
           /\ result.chunk_type = "ocr_error" => result.text = ErrorText
           /\ result.source = "degraded" =>
                /\ result.chunk_type = "ocr_text"
                /\ result.text = FailedText(result.page)
                /\ result.confidence = Frac(10, 100)
  /\ (req.file_type = "image" /\ ocr_log # <<>>) =>
       LET result == ocr_log[1].result
       IN  /\ result.chunk_type # "ocr_text" =>
                recog_calls = 0 /\ search = IdleSearch
           /\ result.chunk_type = "ocr_text" =>
                /\ search.k = NUM_CONFIGS + 1
                /\ recog_calls >= NUM_CONFIGS
                /\ result.source = "degraded" <=>
                     (recog_calls = NUM_CONFIGS + 1
                        /\ result.text = FailedText(1))
           /\ pc = "done" =>
                /\ Len(response.chunks) = 1
                /\ response.chunks[1].chunk_type = result.chunk_type

\* The response for a standalone image on which the five configurations and
\* the plain fallback all failed: one chunk, of type ocr_text, with the
\* placeholder and confidence 0.1.
C28_Witness ==
  /\ req.file_type = "image"
  /\ pc = "done"
  /\ recog_calls = NUM_CONFIGS + 1
  /\ Len(response.chunks) = 1
  /\ response.chunks[1].chunk_type = "ocr_text"
  /\ response.chunks[1].text = FailedText(1)
  /\ response.chunks[1].confidence = Frac(10, 100)

\* the page records whose image block the assembly loop has reached
PagesReached ==
  {j \in 1..Len(pages_data) : j < page_i \/ (j = page_i /\ pc = "images")}

\* a non-error page record with at least one extracted image
HoldsImage(page_data) == ~page_data.error /\ page_data.images # <<>>

\* C29: on a PDF request with extract_images false no search is run and no
\* recognition call made, every chunk is of type text, extracted_languages
\* stays empty and has_images false, whatever images the page records hold;
\* with extract_images true, has_images is true exactly from the first
\* non-error page with an extracted image on, whatever its searches give.
C29_ExtractImagesFrame ==
  (req.file_type = "pdf" /\ pc \in {"page", "images", "done"}) =>
    /\ ~req.extract_images =>
         /\ ocr_log = <<>>
         /\ recog_calls = 0
         /\ pc # "images"
         /\ \A n \in 1..Len(all_chunks) : all_chunks[n].chunk_type = "text"
         /\ extracted_languages = {}
         /\ ~has_images
         /\ IsPdfResult =>
              /\ ~response.has_images
              /\ response.extracted_languages = <<>>
              /\ \A n \in 1..Len(response.chunks) :
                   response.chunks[n].chunk_type = "text"
    /\ req.extract_images =>
         /\ has_images <=> \E j \in PagesReached : HoldsImage(pages_data[j])
         /\ IsPdfResult =>
              (response.has_images <=>
                 \E j \in 1..Len(pages_data) : HoldsImage(pages_data[j]))

\* A PDF whose first page holds an image and a line of text, answered with
\* extract_images false: one text chunk, no search, has_images false.
C29_Witness ==
  /\ IsPdfResult
  /\ ~req.extract_images
  /\ Len(pages_data) >= 1
  /\ HoldsImage(pages_data[1])
  /\ Len(response.chunks) >= 1
  /\ ~response.has_images
  /\ response.extracted_languages = <<>>
  /\ ocr_log = <<>>

\* the config file holds a tesseract_path
HoldsPath(file) == file.state = "ok" /\ file.path # ""

\* the step is a return of configure_pytesseract
Returns == Len(tess'.log) = Len(tess.log) + 1

\* Parts of C30 that hold whatever the write does: the candidate locations
\* are searched only when the file holds no path, and the call returns True
\* exactly when a path was chosen and the probe succeeded.
SearchOnlyWithoutPath ==
  /\ (tess.pc = "loaded" /\ tess'.call.searched) => ~HoldsPath(tess.file)
  /\ (tess.pc = "loaded" /\ HoldsPath(tess.file)) =>
       /\ ~tess'.call.searched
       /\ tess'.call.chosen = tess.file.path
  /\ Returns =>
       LET call == tess'.log[Len(tess'.log)]
       IN  call.returned <=> (call.chosen # "" /\ call.probe = "ok")

\* C30 as stated: across the calls of configure_pytesseract, the stored path
\* takes precedence over the search, the chosen path is in the config file
\* when the version probe runs, the call returns True exactly when a path
\* was chosen and the probe succeeded, and a stored path is never replaced.
C30_StoredPathKept ==
  [][/\ SearchOnlyWithoutPath
     /\ tess.pc = "saved" => tess.file = Stored(tess.call.chosen)
     /\ HoldsPath(tess.file) => tess'.file = tess.file
    ]_vars

\* C30, amended: the search and the return value are as stated; the write
\* of the chosen path is attempted before the probe and its failure is
\* swallowed, so that when the probe runs the file holds the chosen path if
\* the write succeeded, and is as it was or unreadable if it did not; a
\* stored path is kept by every call whose write succeeds or is refused,
\* and is lost only by a write that fails after truncating the file, after
\* which the next call searches again.
C30_StoredPathKeptWhileWritten ==
  [][/\ SearchOnlyWithoutPath
     /\ tess.pc = "saved" =>
          /\ tess.call.write \in Writes
          /\ tess.cmd = tess.call.chosen
          /\ tess.call.write = "written" => tess.file = Stored(tess.call.chosen)
          /\ tess.call.write = "torn" => tess.file = Corrupt
     /\ HoldsPath(tess.file) =>
          \/ tess'.file = tess.file
          \/ /\ tess.pc = "chosen"
             /\ tess'.call.write = "torn"
             /\ tess'.file = Corrupt
    ]_vars

\* A stored path whose probe failed in the first call is loaded again by
\* the second call, without a search, and is still the stored path.
C30_Witness ==
  /\ Len(tess.log) = 2
  /\ tess.log[1].loaded = "/usr/bin/tesseract"
  /\ tess.log[1].write = "written"
  /\ tess.log[1].probe = "failed"
  /\ ~tess.log[1].returned
  /\ tess.log[2].loaded = "/usr/bin/tesseract"
  /\ ~tess.log[2].searched
  /\ tess.file = Stored("/usr/bin/tesseract")

====
